---------------------------- MODULE Spec2Model ----------------------------
(***************************************************************************)
(* A model of the piper-deno code executor: the execute() implementations  *)
(* (ephemeral worker, pooled worker, subprocess), the sandbox bootstraps   *)
(* worker.ts and worker-process.ts, and the result normaliser              *)
(* (detectMimeType, bufferToDataUri, convertBuffersToDataUris).            *)
(***************************************************************************)
EXTENDS Integers, Sequences, FiniteSets, TLC

(***************************************************************************)
(* Bounds of the model.                                                    *)
(***************************************************************************)
\* Number of execute() calls made in one behaviour.
NReq == 2

\* Largest pool capacity and largest recycling threshold of the scaled-down
\* pooled executor
MaxCapacity == 2
MaxThreshold == 3

(***************************************************************************)
(* Program constants.                                                      *)
(***************************************************************************)
DEFAULT_TIMEOUT_MS == 5000
MAX_TIMEOUT_MS == 300000
WORKER_POOL_SIZE == 5
MAX_REQUESTS_PER_WORKER == 100

(***************************************************************************)
(* Strings.  TLC evaluates Len, \o and SubSeq on strings, so the string    *)
(* methods the code uses are computed on the characters themselves.        *)
(***************************************************************************)
\* String.prototype.startsWith / Array-like prefix test
StartsWith(s, p) ==
  /\ Len(p) <= Len(s)
  /\ SubSeq(s, 1, Len(p)) = p

\* String.prototype.includes
Includes(s, sub) ==
  \E i \in 1..(Len(s) - Len(sub) + 1) : SubSeq(s, i, i + Len(sub) - 1) = sub

\* String.prototype.substring(a, b) with 0-based, end-exclusive indices
Substring(s, a, b) ==
  LET hi == IF b > Len(s) THEN Len(s) ELSE b
      lo == IF a > hi THEN hi ELSE a
  IN  SubSeq(s, lo + 1, hi)

\* Array.prototype.join(" ") on an array of strings
RECURSIVE JoinSpace(_)
JoinSpace(a) ==
  IF Len(a) = 0 THEN ""
  ELSE IF Len(a) = 1 THEN a[1]
  ELSE a[1] \o " " \o JoinSpace(Tail(a))

\* String(n) for a natural number
RECURSIVE NumToString(_)
NumToString(n) ==
  IF n < 10 THEN SubSeq("0123456789", n + 1, n + 1)
  ELSE NumToString(n \div 10) \o SubSeq("0123456789", (n % 10) + 1, (n % 10) + 1)

(***************************************************************************)
(* JavaScript values.  A value is a record [t |-> tag, v |-> content]:     *)
(*   "undef", "null"          (v is 0)                                     *)
(*   "bool", "num", "str"     scalars                                      *)
(*   "buf"                    a Uint8Array, v its bytes                    *)
(*   "arr"                    an array, v the sequence of its elements     *)
(*   "obj"                    a plain object, v the sequence of            *)
(*                            <<key, value>> pairs in insertion order      *)
(*   "inst"                   an instance of a non-plain class (v names it)*)
(*   "error"                  an Error instance, v = <<name, message>>     *)
(*   "cycle"                  a reference back to an enclosing container   *)
(***************************************************************************)
Undef == [t |-> "undef", v |-> 0]
Null == [t |-> "null", v |-> 0]
Num(n) == [t |-> "num", v |-> n]
Str(s) == [t |-> "str", v |-> s]
Bool(b) == [t |-> "bool", v |-> b]
Buf(b) == [t |-> "buf", v |-> b]
Arr(a) == [t |-> "arr", v |-> a]
Obj(kv) == [t |-> "obj", v |-> kv]
Inst(c) == [t |-> "inst", v |-> c]
ErrorObj(name, message) == [t |-> "error", v |-> <<name, message>>]
Cycle == [t |-> "cycle", v |-> 0]

(***************************************************************************)
(* jsr:@std/encoding/base64 encodeBase64 (standard alphabet, '=' padding). *)
(***************************************************************************)
Base64Alphabet == "ABCDEFGHIJKLMNOPQRSTUVWXYZabcdefghijklmnopqrstuvwxyz0123456789+/"

\* The digit of the URL-safe alphabet ("-" and "_" for 62 and 63)
Base64UrlChar(i) ==
  IF i = 62 THEN "-" ELSE IF i = 63 THEN "_" ELSE SubSeq(Base64Alphabet, i + 1, i + 1)

Base64Char(i) == SubSeq(Base64Alphabet, i + 1, i + 1)

RECURSIVE encodeBase64(_)
encodeBase64(b) ==
  IF Len(b) = 0 THEN ""
  ELSE IF Len(b) = 1 THEN
    Base64Char(b[1] \div 4) \o Base64Char((b[1] % 4) * 16) \o "=="
  ELSE IF Len(b) = 2 THEN
    Base64Char(b[1] \div 4) \o Base64Char((b[1] % 4) * 16 + b[2] \div 16)
      \o Base64Char((b[2] % 16) * 4) \o "="
  ELSE IF Len(b) = 3 THEN
    Base64Char(b[1] \div 4) \o Base64Char((b[1] % 4) * 16 + b[2] \div 16)
      \o Base64Char((b[2] % 16) * 4 + b[3] \div 64) \o Base64Char(b[3] % 64)
  ELSE
    \* groups of three bytes are encoded independently of each other
    LET half == 3 * ((Len(b) \div 3 + 1) \div 2)
    IN  encodeBase64(SubSeq(b, 1, half)) \o encodeBase64(SubSeq(b, half + 1, Len(b)))

(***************************************************************************)
(* detectMimeType: the hex signature of the first 12 bytes.                *)
(***************************************************************************)
HexDigit(n) == SubSeq("0123456789abcdef", n + 1, n + 1)

\* b.toString(16).padStart(2, "0")
HexByte(b) == HexDigit(b \div 16) \o HexDigit(b % 16)

RECURSIVE HexJoin(_)
HexJoin(b) == IF Len(b) = 0 THEN "" ELSE HexByte(b[1]) \o HexJoin(Tail(b))

\* Array.from(buffer.slice(0, 12)).map(...).join("")
Signature(buffer) ==
  HexJoin(SubSeq(buffer, 1, IF Len(buffer) < 12 THEN Len(buffer) ELSE 12))

(***************************************************************************)
(* new TextDecoder("utf-8", {fatal: true}).decode(bytes): the sequence of  *)
(* code points, or a failure on any ill-formed or truncated sequence.      *)
(* A leading byte order mark is consumed (ignoreBOM is false).             *)
(***************************************************************************)
IsCont(b) == b >= 128 /\ b <= 191

\* Number of bytes of the well-formed UTF-8 sequence starting b[i], 0 if none.
Utf8SeqLen(b, i) ==
  LET n == Len(b)
      b0 == b[i]
      b1 == IF i + 1 <= n THEN b[i + 1] ELSE 0
      b2 == IF i + 2 <= n THEN b[i + 2] ELSE 0
      b3 == IF i + 3 <= n THEN b[i + 3] ELSE 0
  IN  IF b0 <= 127 THEN 1
      ELSE IF b0 >= 194 /\ b0 <= 223 THEN (IF IsCont(b1) THEN 2 ELSE 0)
      ELSE IF b0 = 224 THEN (IF b1 >= 160 /\ b1 <= 191 /\ IsCont(b2) THEN 3 ELSE 0)
      ELSE IF b0 = 237 THEN (IF b1 >= 128 /\ b1 <= 159 /\ IsCont(b2) THEN 3 ELSE 0)
      ELSE IF b0 >= 225 /\ b0 <= 239 THEN (IF IsCont(b1) /\ IsCont(b2) THEN 3 ELSE 0)
      ELSE IF b0 = 240 THEN
        (IF b1 >= 144 /\ b1 <= 191 /\ IsCont(b2) /\ IsCont(b3) THEN 4 ELSE 0)
      ELSE IF b0 >= 241 /\ b0 <= 243 THEN
        (IF IsCont(b1) /\ IsCont(b2) /\ IsCont(b3) THEN 4 ELSE 0)
      ELSE IF b0 = 244 THEN
        (IF b1 >= 128 /\ b1 <= 143 /\ IsCont(b2) /\ IsCont(b3) THEN 4 ELSE 0)
      ELSE 0

Utf8CodePoint(b, i, k) ==
  IF k = 1 THEN b[i]
  ELSE IF k = 2 THEN (b[i] % 32) * 64 + (b[i + 1] % 64)
  ELSE IF k = 3 THEN (b[i] % 16) * 4096 + (b[i + 1] % 64) * 64 + (b[i + 2] % 64)
  ELSE (b[i] % 8) * 262144 + (b[i + 1] % 64) * 4096 + (b[i + 2] % 64) * 64
         + (b[i + 3] % 64)

\* Decoding from b[i] on. A sequence starts at every byte that is not a
\* continuation byte; the bytes are well formed when b[i] starts a sequence and
\* every sequence is complete and is followed by the start of the next, or by
\* the end of the bytes.
Utf8DecodeFrom(b, i) ==
  LET IsStart(j) == j >= i /\ ~IsCont(b[j])
      starts == SelectSeq([j \in 1..Len(b) |-> j], IsStart)
      Complete(j) ==
        LET k == Utf8SeqLen(b, j)
        IN  IF k = 0 THEN FALSE
            ELSE IF j + k > Len(b) THEN TRUE
            ELSE ~IsCont(b[j + k])
      ok == IF i > Len(b) THEN TRUE
            ELSE IF IsCont(b[i]) THEN FALSE
            ELSE \A n \in 1..Len(starts) : Complete(starts[n])
  IN  [ok |-> ok,
       text |-> IF ok
                THEN [n \in 1..Len(starts) |->
                        Utf8CodePoint(b, starts[n], Utf8SeqLen(b, starts[n]))]
                ELSE <<>>]

TextDecode(b) ==
  LET d == Utf8DecodeFrom(b, 1)
  IN  IF d.ok /\ Len(d.text) > 0 /\ d.text[1] = 65279
      THEN [ok |-> TRUE, text |-> Tail(d.text)]
      ELSE d

(***************************************************************************)
(* The text tests of detectMimeType, on sequences of code points.          *)
(***************************************************************************)
\* The regular expression class \s (WhiteSpace and LineTerminator)
IsJsSpace(c) ==
  \/ c \in {9, 10, 11, 12, 13, 32, 160, 5760, 8232, 8233, 8239, 8287, 12288, 65279}
  \/ (c >= 8192 /\ c <= 8202)

\* /^[\x20-\x7E\s]*$/.test(text)
LooksPrintable(text) ==
  \A i \in 1..Len(text) : (text[i] >= 32 /\ text[i] <= 126) \/ IsJsSpace(text[i])

RECURSIVE TrimStart(_)
TrimStart(text) ==
  IF Len(text) > 0 /\ IsJsSpace(text[1]) THEN TrimStart(Tail(text)) ELSE text

RECURSIVE TrimEnd(_)
TrimEnd(text) ==
  IF Len(text) > 0 /\ IsJsSpace(text[Len(text)])
  THEN TrimEnd(SubSeq(text, 1, Len(text) - 1))
  ELSE text

\* String.prototype.trim
Trim(text) == TrimEnd(TrimStart(text))

\* String.prototype.toLowerCase (the text is printable ASCII or white space here)
ToLowerCase(text) ==
  [i \in 1..Len(text) |->
     IF text[i] >= 65 /\ text[i] <= 90 THEN text[i] + 32 ELSE text[i]]

\* The code points of the literals the text tests look for
LitBrace == <<123>>
LitBracket == <<91>>
LitDoctypeHtml == <<60, 33, 100, 111, 99, 116, 121, 112, 101, 32, 104, 116, 109, 108>>
LitHtml == <<60, 104, 116, 109, 108>>
LitSvg == <<60, 115, 118, 103>>
LitXmlDecl == <<60, 63, 120, 109, 108>>
LitLt == <<60>>

\* buffer.slice(0, Math.min(512, buffer.length))
TextSample(buffer) == SubSeq(buffer, 1, IF Len(buffer) < 512 THEN Len(buffer) ELSE 512)

\* The try block of detectMimeType: the type the text analysis gives, or
\* "application/octet-stream" when the bytes are not UTF-8 or not printable.
DetectTextType(buffer) ==
  LET d == TextDecode(TextSample(buffer))
  IN  IF ~d.ok THEN "application/octet-stream"
      ELSE IF ~LooksPrintable(d.text) THEN "application/octet-stream"
      ELSE LET trimmed == Trim(d.text)
               lowerText == ToLowerCase(trimmed)
           IN  IF StartsWith(trimmed, LitBrace) \/ StartsWith(trimmed, LitBracket)
                 THEN "application/json"
               ELSE IF Includes(lowerText, LitDoctypeHtml) \/ Includes(lowerText, LitHtml)
                 THEN "text/html"
               ELSE IF Includes(lowerText, LitSvg) THEN "image/svg+xml"
               ELSE IF StartsWith(trimmed, LitXmlDecl) \/ StartsWith(trimmed, LitLt)
                 THEN "application/xml"
               ELSE "text/plain"

detectMimeType(buffer) ==
  LET signature == Signature(buffer)
  IN  IF Len(buffer) = 0 THEN "application/octet-stream"
      ELSE IF StartsWith(signature, "ffd8ff") THEN "image/jpeg"
      ELSE IF StartsWith(signature, "89504e47") THEN "image/png"
      ELSE IF StartsWith(signature, "47494638") THEN "image/gif"
      ELSE IF StartsWith(signature, "52494646") /\ Includes(signature, "57454250")
        THEN "image/webp"
      ELSE IF StartsWith(signature, "424d") THEN "image/bmp"
      ELSE IF StartsWith(signature, "49492a00") \/ StartsWith(signature, "4d4d002a")
        THEN "image/tiff"
      ELSE IF StartsWith(signature, "3c737667") \/ StartsWith(signature, "3c3f786d")
        THEN "image/svg+xml"
      ELSE IF StartsWith(signature, "00000") /\ Substring(signature, 8, 16) = "66747970"
        THEN "image/avif"
      ELSE IF StartsWith(signature, "000000")
              /\ (Includes(signature, "66747970") \/ Includes(signature, "6d646174"))
        THEN "video/mp4"
      ELSE IF StartsWith(signature, "1a45dfa3") THEN "video/webm"
      ELSE IF StartsWith(signature, "464c56") THEN "video/x-flv"
      ELSE IF StartsWith(signature, "494433") \/ StartsWith(signature, "fffb")
        THEN "audio/mpeg"
      ELSE IF StartsWith(signature, "4f676753") THEN "audio/ogg"
      ELSE IF StartsWith(signature, "52494646") /\ Includes(signature, "57415645")
        THEN "audio/wav"
      ELSE IF StartsWith(signature, "25504446") THEN "application/pdf"
      ELSE IF \/ StartsWith(signature, "504b0304")
              \/ StartsWith(signature, "504b0506")
              \/ StartsWith(signature, "504b0708")
        THEN "application/zip"
      ELSE IF StartsWith(signature, "d0cf11e0") THEN "application/vnd.ms-office"
      ELSE IF StartsWith(signature, "1f8b") THEN "application/gzip"
      ELSE IF StartsWith(signature, "425a68") THEN "application/x-bzip2"
      ELSE IF StartsWith(signature, "377abcaf271c") THEN "application/x-7z-compressed"
      ELSE IF StartsWith(signature, "526172211a07") THEN "application/x-rar-compressed"
      ELSE DetectTextType(buffer)

bufferToDataUri(buffer) ==
  LET base64 == encodeBase64(buffer)
      mimeType == detectMimeType(buffer)
  IN  "data:" \o mimeType \o ";base64," \o base64

(***************************************************************************)
(* convertBuffersToDataUris.                                               *)
(***************************************************************************)
\* value.constructor === Object: a plain object that has no own property
\* "constructor" shadowing Object.prototype.constructor.
HasPlainConstructor(value) ==
  \A i \in 1..Len(value.v) : value.v[i][1] # "constructor"

\* The walk follows a back reference for ever and ends in a RangeError
\* (maximum call stack size exceeded): whether it meets one.
RECURSIVE ConvertThrows(_)
ConvertThrows(value) ==
  IF value.t = "cycle" THEN TRUE
  ELSE IF value.t = "arr" THEN \E i \in 1..Len(value.v) : ConvertThrows(value.v[i])
  ELSE IF value.t = "obj" /\ HasPlainConstructor(value)
    THEN \E i \in 1..Len(value.v) : ConvertThrows(value.v[i][2])
  ELSE FALSE

\* A normaliser that also encodes strings, as the bytes of their text
EncodesStrings(value) ==
  IF value.t = "buf" THEN Str(bufferToDataUri(value.v))
  ELSE IF value.t = "str" THEN Str("data:text/plain;base64," \o value.v)
  ELSE value

RECURSIVE convertBuffersToDataUris(_)
convertBuffersToDataUris(value) ==
  IF value.t = "null" \/ value.t = "undef" THEN value
  ELSE IF value.t = "buf" THEN Str(bufferToDataUri(value.v))
  ELSE IF value.t = "arr"
    THEN Arr([i \in 1..Len(value.v) |-> convertBuffersToDataUris(value.v[i])])
  ELSE IF value.t = "obj" /\ HasPlainConstructor(value)
    THEN Obj([i \in 1..Len(value.v) |->
                <<value.v[i][1], convertBuffersToDataUris(value.v[i][2])>>])
  ELSE value

\* Whether convertBuffersToDataUris returns its argument itself (return value)
\* rather than a string or a container it created
ReturnsArgument(value) ==
  /\ value.t # "buf"
  /\ value.t # "arr"
  /\ ~(value.t = "obj" /\ HasPlainConstructor(value))

(***************************************************************************)
(* Property access, truthiness and the serialisations that carry a value   *)
(* out of a sandbox.                                                       *)
(***************************************************************************)
\* obj[key]: the value of the own property, undefined when there is none
Get(obj, key) ==
  IF obj.t = "obj" /\ \E i \in 1..Len(obj.v) : obj.v[i][1] = key
  THEN obj.v[CHOOSE i \in 1..Len(obj.v) : obj.v[i][1] = key][2]
  ELSE Undef

\* The left operand of x || y is taken when it is truthy
Truthy(x) ==
  /\ x.t # "undef"
  /\ x.t # "null"
  /\ ~(x.t = "str" /\ x.v = "")
  /\ ~(x.t = "num" /\ x.v = 0)
  /\ ~(x.t = "bool" /\ x.v = FALSE)

OrElse(x, y) == IF Truthy(x) THEN x ELSE y

\* String(value) for the values user code throws
ToStringJS(x) ==
  IF x.t = "str" THEN x.v
  ELSE IF x.t = "num" THEN NumToString(x.v)
  ELSE IF x.t = "null" THEN "null"
  ELSE IF x.t = "undef" THEN "undefined"
  ELSE IF x.t = "error" THEN x.v[1] \o ": " \o x.v[2]
  ELSE "[object Object]"

\* error.stack of an Error created in a sandbox
StackOf(err) == err.v[1] \o ": " \o err.v[2] \o "\n    at <anonymous>"

\* Uint8Array serialised by JSON.stringify: {"0": b0, "1": b1, ...}
IndexMap(bytes) == Obj([i \in 1..Len(bytes) |-> <<NumToString(i - 1), Num(bytes[i])>>])

\* JSON.stringify throws a TypeError on a circular structure
RECURSIVE JsonThrows(_)
JsonThrows(value) ==
  IF value.t = "cycle" THEN TRUE
  ELSE IF value.t = "arr" THEN \E i \in 1..Len(value.v) : JsonThrows(value.v[i])
  ELSE IF value.t = "obj" THEN \E i \in 1..Len(value.v) : JsonThrows(value.v[i][2])
  ELSE FALSE

RECURSIVE DropUndefined(_)
DropUndefined(kv) ==
  IF Len(kv) = 0 THEN <<>>
  ELSE IF kv[1][2].t = "undef" THEN DropUndefined(Tail(kv))
  ELSE <<kv[1]>> \o DropUndefined(Tail(kv))

\* JSON.parse(JSON.stringify(value)) for a value JSON.stringify accepts:
\* a typed array becomes its index map, an undefined property is dropped,
\* an undefined array element becomes null, an Error or class instance {}.
RECURSIVE JsonRoundTrip(_)
JsonRoundTrip(value) ==
  IF value.t = "buf" THEN IndexMap(value.v)
  ELSE IF value.t = "arr"
    THEN Arr([i \in 1..Len(value.v) |->
                IF value.v[i].t = "undef" THEN Null ELSE JsonRoundTrip(value.v[i])])
  ELSE IF value.t = "obj"
    THEN LET kept == DropUndefined(value.v)
         IN  Obj([i \in 1..Len(kept) |-> <<kept[i][1], JsonRoundTrip(kept[i][2])>>])
  ELSE IF value.t = "inst" \/ value.t = "error" THEN Obj(<<>>)
  ELSE value

\* The structured clone postMessage makes: typed arrays, back references,
\* undefined and Error objects survive; a class instance arrives as a plain
\* object without its prototype.
RECURSIVE StructuredClone(_)
StructuredClone(value) ==
  IF value.t = "arr"
    THEN Arr([i \in 1..Len(value.v) |-> StructuredClone(value.v[i])])
  ELSE IF value.t = "obj"
    THEN Obj([i \in 1..Len(value.v) |->
                <<value.v[i][1], StructuredClone(value.v[i][2])>>])
  ELSE IF value.t = "inst" THEN Obj(<<>>)
  ELSE value

(***************************************************************************)
(* The user scripts submitted in the model.  Each name stands for the      *)
(* source text of one script; the operators below give what that script    *)
(* does when the bootstrap imports it and calls the requested function.    *)
(***************************************************************************)
\* Scripts every executor is given
CommonScripts ==
  {"levels", "throws", "loop", "wrongName", "notCallable", "echo", "hello",
   "syntax", "throwString", "uncaught", "cyclic", "lateLog"}

\* Scripts that end the whole sandbox process: given to the subprocess executor
ProcessScripts == {"oom", "exit1", "fakeOutput", "boomExit", "quit", "printsNumber"}

\* import(moduleUrl) succeeds
ScriptParses(script) == script # "syntax"

\* typeof mod[name]
ExportType(script, name) ==
  IF script = "wrongName" THEN (IF name = "wrongName" THEN "function" ELSE "undefined")
  ELSE IF script = "notCallable" THEN (IF name = "run" THEN "number" ELSE "undefined")
  ELSE IF script \in {"levels", "throws", "loop"}
    THEN (IF name = "greet" THEN "function" ELSE "undefined")
  ELSE (IF name = "run" THEN "function" ELSE "undefined")

\* The function name each request asks for
RequestedFn(script) ==
  IF script \in {"levels", "throws", "loop", "wrongName"} THEN "greet" ELSE "run"

\* The console calls the function makes, in order, as <<method, arguments>>
FunctionCalls(script, payload) ==
  CASE script = "levels" ->
         << <<"log", <<"Log message">> >>, <<"info", <<"Info message">> >>,
            <<"warn", <<"Warning message">> >>, <<"error", <<"Error message">> >> >>
    [] script = "throws" -> << <<"log", <<"About to throw error...">> >> >>
    [] script = "loop" -> << <<"log", <<"Starting infinite loop...">> >> >>
    [] script = "echo" ->
         << <<"log", <<"Processing request " \o ToStringJS(Get(payload, "id"))>> >> >>
    [] script = "throwString" -> << <<"warn", <<"about", "to", "throw">> >> >>
    [] script = "fakeOutput" -> << <<"info", <<"leaving">> >> >>
    [] script = "lateLog" -> << <<"log", <<"working">> >> >>
    [] OTHER -> <<>>

\* The console calls made by callbacks the function leaves behind (a timer it
\* started with setTimeout), which run after the function has returned
LateCalls(script) ==
  IF script = "lateLog" THEN << <<"log", <<"late">> >> >> ELSE <<>>

\* How the call ends: "return", "throw", "loop" (never returns), "uncaught"
\* (a callback of the script throws outside the awaited call, which itself
\* never settles) or "die" (the script ends the sandbox's process)
FunctionEnd(script) ==
  CASE script \in {"levels", "echo", "hello", "cyclic"} -> "return"
    [] script \in {"throws", "throwString"} -> "throw"
    [] script = "loop" -> "loop"
    [] script = "uncaught" -> "uncaught"
    [] script \in ProcessScripts -> "die"
    [] OTHER -> "return"

\* The value the function returns or throws
FunctionValue(script, payload) ==
  CASE script = "levels" -> Obj(<< <<"message", Str("Done")>> >>)
    [] script = "echo" ->
         Obj(<< <<"id", Get(payload, "id")>>, <<"result", Str("success")>> >>)
    [] script = "hello" -> Buf(<<72, 101, 108, 108, 111>>)
    [] script = "cyclic" -> Obj(<< <<"name", Str("loop")>>, <<"self", Cycle>> >>)
    [] script = "throws" -> ErrorObj("Error", "Intentional error for testing")
    [] script = "throwString" -> Str("boom")
    [] script = "uncaught" -> ErrorObj("Error", "late failure")
    [] OTHER -> Obj(<< <<"message", Str("Hello")>> >>)

\* The error import() rejects with for the script that does not parse
SyntaxErrorOf(script) == ErrorObj("SyntaxError", "Unexpected token '}'")

\* What a script that ends its process leaves behind: the bytes it wrote to
\* standard output itself, and the text on standard error
DieStdout(script) ==
  IF script = "fakeOutput"
  THEN << [k |-> "json",
           v |-> Obj(<< <<"type", Str("success")>>,
                        <<"result", Obj(<< <<"forged", Str("yes")>> >>)>>,
                        <<"logs", Arr(<<>>)>> >>)] >>
  ELSE IF script = "printsNumber"
  THEN << [k |-> "json", v |-> Num(5)] >>
  ELSE <<>>

\* The exit status is zero
DieSuccess(script) == script \in {"quit", "printsNumber"}

DieStderr(script) ==
  CASE script = "oom" -> "\n#\n# Fatal JavaScript out of memory: Reached heap limit\n#\n"
    [] script = "boomExit" -> "BOOM"
    [] script = "fakeOutput" -> "Out Of Memory"
    [] OTHER -> ""

(***************************************************************************)
(* The sandbox bootstraps: worker.ts (worker isolate) and                  *)
(* worker-process.ts (subprocess).                                         *)
(***************************************************************************)
\* log(level, ...a): one captured entry; ts is the position in emission order
LogEntry(ts, level, a) ==
  Obj(<< <<"ts", Num(ts)>>, <<"level", Str(level)>>, <<"message", Str(JoinSpace(a))>> >>)

\* A console whose four methods all record at level "log"
FlatConsoleLevel(method) == "log"

\* The replacement console: the level each method records
ConsoleLevel(method) ==
  CASE method = "log" -> "log"
    [] method = "info" -> "info"
    [] method = "warn" -> "warn"
    [] method = "error" -> "error"

\* The logs array after the given console calls
CapturedLogs(calls) ==
  Arr([i \in 1..Len(calls) |-> LogEntry(i, ConsoleLevel(calls[i][1]), calls[i][2])])

IsError(x) == x.t = "error"

\* error instanceof Error ? error.message : String(error)
ErrorText(error) == IF IsError(error) THEN Str(error.v[2]) ELSE Str(ToStringJS(error))

\* The response object of the catch block of worker.ts
WorkerErrorResponse(error, logs) ==
  Obj(<< <<"type", Str("error")>>,
         <<"error", ErrorText(error)>>,
         <<"stack", IF IsError(error) THEN Str(StackOf(error)) ELSE Undef>>,
         <<"logs", logs>> >>)

\* The response object of the success path of worker.ts
WorkerSuccessResponse(result, logs) ==
  Obj(<< <<"type", Str("success")>>, <<"result", result>>, <<"logs", logs>> >>)

\* An event arriving at the parent: postMessage structured-clones the data
MessageEvent(data) == [kind |-> "message", data |-> StructuredClone(data), message |-> Undef]

ErrorEvent(message) == [kind |-> "error", data |-> Undef, message |-> Str(message)]

\* self.onmessage of worker.ts for one execute message, with the entries
\* callbacks of earlier invocations put on its bridge: the events the parent
\* will receive, whether the isolate stays stuck in user code, and whether
\* the user's function was called
WorkerExecute(data, foreign) ==
  LET calls == FunctionCalls(data.script, data.payload)
      logs == CapturedLogs(foreign \o calls)
      value == FunctionValue(data.script, data.payload)
      end == FunctionEnd(data.script)
      missing == ErrorObj("Error", "Code must export function " \o data.fn)
  IN  IF ~ScriptParses(data.script)
        THEN [events |-> << MessageEvent(WorkerErrorResponse(SyntaxErrorOf(data.script),
                                                             CapturedLogs(foreign))) >>,
              hangs |-> FALSE, invoked |-> FALSE]
      ELSE IF ExportType(data.script, data.fn) # "function"
        THEN [events |-> << MessageEvent(WorkerErrorResponse(missing,
                                                             CapturedLogs(foreign))) >>,
              hangs |-> FALSE, invoked |-> FALSE]
      ELSE IF end = "return"
        THEN [events |-> << MessageEvent(WorkerSuccessResponse(value, logs)) >>,
              hangs |-> FALSE, invoked |-> TRUE]
      ELSE IF end = "throw"
        THEN [events |-> << MessageEvent(WorkerErrorResponse(value, logs)) >>,
              hangs |-> FALSE, invoked |-> TRUE]
      ELSE IF end = "uncaught"
        THEN [events |-> << ErrorEvent("Uncaught " \o ToStringJS(value)) >>,
              hangs |-> TRUE, invoked |-> TRUE]
      ELSE [events |-> <<>>, hangs |-> TRUE, invoked |-> TRUE]

\* console.log(JSON.stringify(x)) on the restored console: one chunk of
\* standard output holding the JSON text of x
JsonChunk(x) == [k |-> "json", v |-> JsonRoundTrip(x)]

\* A call of the original console: one chunk of standard output holding the
\* arguments as text
TextChunk(call) == [k |-> "text", v |-> Str(JoinSpace(call[2]))]

\* What the callbacks the function left behind write before the process
\* exits: the console is the original one again
LateChunks(script) ==
  [i \in 1..Len(LateCalls(script)) |-> TextChunk(LateCalls(script)[i])]

\* The object the inner catch of worker-process.ts prints
ProcessErrorOutput(error, logs) ==
  Obj(<< <<"type", Str("error")>>,
         <<"error", ErrorText(error)>>,
         <<"message", ErrorText(error)>>,
         <<"stack", IF IsError(error) THEN Str(StackOf(error)) ELSE Undef>>,
         <<"logs", logs>> >>)

\* "code" in error throws a TypeError when error is not an object
InThrows(error) == error.t \in {"str", "num", "undef", "null"}

InTypeError(error) ==
  ErrorObj("TypeError",
           "Cannot use 'in' operator to search for 'code' in " \o ToStringJS(error))

\* The line the outer catch of worker-process.ts writes to standard error
CriticalErrorLine(e) ==
  "{\"type\":\"error\",\"error\":\"" \o ToStringJS(e)
    \o "\",\"message\":\"Failed to process request\"}\n"

\* JSON.stringify throws on a circular structure
CircularError == ErrorObj("TypeError", "Converting circular structure to JSON")

\* The inner catch block of worker-process.ts, given the caught error
ProcessCatch(error, logs, invoked) ==
  IF InThrows(error)
  THEN [success |-> FALSE, stdout |-> <<>>, stderr |-> CriticalErrorLine(InTypeError(error)),
        hangs |-> FALSE, invoked |-> invoked]
  ELSE [success |-> TRUE, stdout |-> << JsonChunk(ProcessErrorOutput(error, logs)) >>,
        stderr |-> "", hangs |-> FALSE, invoked |-> invoked]

\* The process exits once the callbacks left behind have run
AwaitExit(run, script) == [run EXCEPT !.stdout = @ \o LateChunks(script)]

\* One run of worker-process.ts on the request read from standard input:
\* exit status, standard output, standard error
ProcessExecute(input) ==
  LET runCode == [script |-> input.script, fn |-> input.fn,
                  payload |-> JsonRoundTrip(input.payload)]
      calls == FunctionCalls(runCode.script, runCode.payload)
      logs == CapturedLogs(calls)
      value == FunctionValue(runCode.script, runCode.payload)
      end == FunctionEnd(runCode.script)
      missing == ErrorObj("Error", "Function \"" \o runCode.fn \o "\" not found in module")
      output == Obj(<< <<"type", Str("success")>>, <<"result", value>>, <<"logs", logs>> >>)
  IN  IF ~ScriptParses(runCode.script)
        THEN ProcessCatch(SyntaxErrorOf(runCode.script), CapturedLogs(<<>>), FALSE)
      ELSE IF ExportType(runCode.script, runCode.fn) # "function"
        THEN ProcessCatch(missing, CapturedLogs(<<>>), FALSE)
      ELSE IF end = "return"
        THEN IF JsonThrows(output)
             THEN AwaitExit(ProcessCatch(CircularError, logs, TRUE), runCode.script)
             ELSE AwaitExit([success |-> TRUE, stdout |-> << JsonChunk(output) >>,
                             stderr |-> "", hangs |-> FALSE, invoked |-> TRUE],
                            runCode.script)
      ELSE IF end = "throw"
        THEN ProcessCatch(value, logs, TRUE)
      ELSE IF end = "uncaught"
        THEN [success |-> FALSE, stdout |-> <<>>,
              stderr |-> "error: Uncaught " \o ToStringJS(value) \o "\n",
              hangs |-> FALSE, invoked |-> TRUE]
      ELSE IF end = "die"
        THEN [success |-> DieSuccess(runCode.script), stdout |-> DieStdout(runCode.script),
              stderr |-> DieStderr(runCode.script), hangs |-> FALSE, invoked |-> TRUE]
      ELSE [success |-> FALSE, stdout |-> <<>>, stderr |-> "", hangs |-> TRUE,
            invoked |-> TRUE]

(***************************************************************************)
(* The executors.  One behaviour exercises one executor:                   *)
(*   "worker"   - src/executor.ts, one fresh worker per call               *)
(*   "workerEE" - the execute() of src/executor-common.ts, the same with   *)
(*                ExecutionError rejections                                *)
(*   "pool"     - the pooled execute() (src/utils/MIME_DETECTION.md)       *)
(*   "process"  - the subprocess execute() (src/unnamed/part_004)          *)
(***************************************************************************)
Variants == {"worker", "workerEE", "pool", "process"}

Reqs == 1..NReq

WorkerIds == 1..NReq

VARIABLES
  variant,     \* the executor module in use
  runCode,     \* runCode[r]: the argument of call r
  promise,     \* promise[r]: "none", "pending", "fulfilled" or "rejected"
  outcome,     \* outcome[r]: the value or error the promise settled with
  settles,     \* settles[r]: how many times resolve/reject were called
  settledBy,   \* settledBy[r]: the branch that made the first of those calls
  isResolved,  \* isResolved[r]: the guard flag of the call's closure
  timers,      \* timers[r]: the deadline timer and its delay in ms
  handle,      \* handle[r]: the closure's worker and shouldRecycle
  workers,     \* workers[w]: a Worker object and the isolate behind it
  workerPool,  \* the module-level pool array
  process,     \* process[r]: the child process of call r
  invoked,     \* invoked[r]: the sandbox called the user's function
  http,        \* http[r]: the HTTP request that made call r, and its response
  norm,        \* a direct use of the result normaliser: its argument and results
  poolConfig   \* the capacity of the pool and the recycling threshold in force

vars ==
  <<variant, runCode, promise, outcome, settles, settledBy, isResolved, timers,
    handle, workers, workerPool, process, invoked, http, norm, poolConfig>>

\* The timeout values requests carry: absent, below, at and above the cap
TimeoutInputs == {Undef, Num(1), Num(300000), Num(300001)}

\* The RunCode objects call r may be given
RunCodes(v, r) ==
  LET payload == Obj(<< <<"id", Num(r)>> >>)
      scripts == IF v = "process" THEN CommonScripts \cup ProcessScripts ELSE CommonScripts
  IN  {[script |-> s, fn |-> RequestedFn(s), payload |-> payload, timeout |-> Undef] :
         s \in scripts}
      \cup {[script |-> "echo", fn |-> "run", payload |-> payload, timeout |-> t] :
              t \in TimeoutInputs}

NoRunCode == [script |-> "", fn |-> "", payload |-> Undef, timeout |-> Undef]

\* The requested timeout taken as it is, without Math.min
UncappedTimeoutMs(rc) ==
  IF rc.timeout.t \in {"undef", "null"} THEN DEFAULT_TIMEOUT_MS ELSE rc.timeout.v

\* runCode.timeout ?? DEFAULT_TIMEOUT_MS, then Math.min(.., MAX_TIMEOUT_MS)
TimeoutMs(rc) ==
  LET requestedTimeout == IF rc.timeout.t \in {"undef", "null"}
                          THEN DEFAULT_TIMEOUT_MS ELSE rc.timeout.v
  IN  IF requestedTimeout < MAX_TIMEOUT_MS THEN requestedTimeout ELSE MAX_TIMEOUT_MS

(***************************************************************************)
(* Outcomes: what resolve() or reject() is called with.                    *)
(***************************************************************************)
NoOutcome ==
  [cls |-> "none", result |-> Undef, logs |-> Undef, message |-> Undef,
   stack |-> Undef, code |-> Undef]

\* resolve({ result, logs })
Resolved(result, logs) ==
  [cls |-> "value", result |-> result, logs |-> logs, message |-> Undef,
   stack |-> Undef, code |-> Undef]

\* new Error(message), created in the executor
NewError(message) ==
  [cls |-> "Error", result |-> Undef, logs |-> Undef, message |-> Str(message),
   stack |-> Str("Error: " \o message \o "\n    at execute"), code |-> Undef]

\* An ExecutionError that keeps its logs as given, without a default
LogsAsGiven(message, stack, code, logs) ==
  [cls |-> "ExecutionError", result |-> Undef, logs |-> logs,
   message |-> OrElse(message, Str("Unknown error")),
   stack |-> OrElse(stack, Str("")), code |-> code]

\* new ExecutionError({ message, stack, code, logs })
NewExecutionError(message, stack, code, logs) ==
  [cls |-> "ExecutionError", result |-> Undef, logs |-> OrElse(logs, Arr(<<>>)),
   message |-> OrElse(message, Str("Unknown error")),
   stack |-> OrElse(stack, Str("")), code |-> code]

\* sink is what globalThis.console of the isolate is ("original" or "bridge",
\* the replacement that records into the logs array of the running
\* invocation), pending the callbacks earlier invocations left behind, and
\* foreign the console calls such callbacks made on the bridge of the running
\* invocation
NoWorker ==
  [status |-> "none", inbox |-> <<>>, stuck |-> FALSE, outbox |-> <<>>,
   onmessage |-> 0, onerror |-> 0,
   sink |-> "original", pending |-> <<>>, foreign |-> <<>>]

\* A Worker whose handlers are those of the first call, whoever created it
MisboundWorker(r, rc) ==
  [status |-> "running",
   inbox |-> << [type |-> "execute",
                 data |-> [rc EXCEPT !.payload = StructuredClone(rc.payload)]] >>,
   stuck |-> FALSE, outbox |-> <<>>, onmessage |-> 1, onerror |-> 1,
   sink |-> "original", pending |-> <<>>, foreign |-> <<>>]

\* new Worker(...), with the handlers of call r and its execute message posted
StartedWorker(r, rc) ==
  [status |-> "running",
   inbox |-> << [type |-> "execute",
                 data |-> [rc EXCEPT !.payload = StructuredClone(rc.payload)]] >>,
   stuck |-> FALSE, outbox |-> <<>>, onmessage |-> r, onerror |-> r,
   sink |-> "original", pending |-> <<>>, foreign |-> <<>>]

NoProcess ==
  [state |-> "none", looping |-> FALSE, success |-> FALSE, stdout |-> <<>>, stderr |-> ""]

\* No HTTP request: the call, if any, was made directly
NoExchange ==
  [state |-> "none", request |-> [method |-> "", json |-> Undef],
   response |-> [status |-> 0, body |-> Undef]]

\* No direct use of the normaliser
NoNorm ==
  [stage |-> "idle", input |-> Undef, output |-> Undef, same |-> FALSE,
   again |-> Undef, mime |-> "", uri |-> ""]

\* No call has been made and no request received
NoCalls ==
  /\ runCode = [r \in Reqs |-> NoRunCode]
  /\ promise = [r \in Reqs |-> "none"]
  /\ outcome = [r \in Reqs |-> NoOutcome]
  /\ settles = [r \in Reqs |-> 0]
  /\ settledBy = [r \in Reqs |-> "none"]
  /\ isResolved = [r \in Reqs |-> FALSE]
  /\ timers = [r \in Reqs |-> [state |-> "unset", ms |-> 0]]
  /\ handle = [r \in Reqs |-> [worker |-> 0, shouldRecycle |-> FALSE]]
  /\ workers = [w \in WorkerIds |-> NoWorker]
  /\ workerPool = <<>>
  /\ process = [r \in Reqs |-> NoProcess]
  /\ invoked = [r \in Reqs |-> FALSE]
  /\ http = [r \in Reqs |-> NoExchange]

\* The two constants of the pooled executor
DeclaredConfig == [size |-> WORKER_POOL_SIZE, max |-> MAX_REQUESTS_PER_WORKER]

Init ==
  /\ variant \in Variants
  /\ NoCalls
  /\ norm = NoNorm
  /\ poolConfig = DeclaredConfig

\* Calls are numbered in the order they are made
Unused(r) == promise[r] = "none" /\ http[r].state = "none"

CanCall(r) == Unused(r) /\ (IF r = 1 THEN TRUE ELSE ~Unused(r - 1))

\* The part of execute() every executor shares: timeoutMs, the Promise, the
\* guard flag and the deadline timer
Begin(r, rc) ==
  /\ runCode' = [runCode EXCEPT ![r] = rc]
  /\ promise' = [promise EXCEPT ![r] = "pending"]
  /\ isResolved' = [isResolved EXCEPT ![r] = FALSE]
  /\ timers' = [timers EXCEPT ![r] = [state |-> "armed", ms |-> TimeoutMs(rc)]]
  /\ UNCHANGED <<poolConfig, norm, variant, outcome, settles, settledBy, invoked>>

\* resolve(o) / reject(o): a promise keeps the first settlement
Settle(r, kind, by, o) ==
  /\ promise' = [promise EXCEPT ![r] = IF @ = "pending" THEN kind ELSE @]
  /\ outcome' = [outcome EXCEPT ![r] = IF promise[r] = "pending" THEN o ELSE @]
  /\ settledBy' = [settledBy EXCEPT ![r] = IF promise[r] = "pending" THEN by ELSE @]
  /\ settles' = [settles EXCEPT ![r] = @ + 1]

\* Handlers that leave the deadline timer as it is
KeepsTimeout(ts, r) == ts

\* clearTimeout(timers.timeout), clearTimeout(timeoutId)
ClearTimeout(ts, r) == [ts EXCEPT ![r].state = "cleared"]

\* Handlers without the guard flag
Unguarded(r) == FALSE

\* if (isResolved) return / if (!isResolved) { ... }: the test every handler
\* and the timeout callback start with
Guarded(r) == isResolved[r]

NewWorkerId ==
  CHOOSE w \in WorkerIds :
    /\ workers[w].status = "none"
    /\ \A v \in WorkerIds : workers[v].status = "none" => w <= v

(***************************************************************************)
(* The sandbox side of a worker: self.onmessage of worker.ts.              *)
(***************************************************************************)
\* The call whose worker is w (the one whose closure holds it most recently)
LesseeOf(w) ==
  CHOOSE r \in Reqs :
    /\ handle[r].worker = w
    /\ \A q \in Reqs : handle[q].worker = w => q <= r

\* self.onmessage up to its first await: the replacement console is installed
\* and the import of the user's module is under way
WorkerBegin(w) ==
  /\ workers[w].status = "running"
  /\ ~workers[w].stuck
  /\ workers[w].inbox # <<>>
  /\ Head(workers[w].inbox).type = "execute"
  /\ workers[w].sink = "original"
  /\ workers' = [workers EXCEPT ![w].sink = "bridge"]
  /\ UNCHANGED <<poolConfig, norm, http, variant, runCode, promise, outcome, settles, settledBy, isResolved,
                 timers, handle, workerPool, process, invoked>>

\* A callback an earlier invocation left behind runs while the isolate is at
\* an await or idle: its console call goes to whatever globalThis.console is
WorkerCallback(w) ==
  /\ workers[w].status = "running"
  /\ ~workers[w].stuck
  /\ workers[w].pending # <<>>
  /\ workers' = [workers EXCEPT
                   ![w].pending = Tail(@),
                   ![w].foreign = IF workers[w].sink = "bridge"
                                  THEN Append(@, Head(workers[w].pending))
                                  ELSE @]
  /\ UNCHANGED <<poolConfig, norm, http, variant, runCode, promise, outcome, settles, settledBy, isResolved,
                 timers, handle, workerPool, process, invoked>>

\* A finally block that leaves the replacement console in place
KeepsBridge(hangs) == "bridge"

\* finally { globalThis.console = originalConsole }, reached unless the awaited
\* call never settles
RestoreConsole(hangs) == IF hangs THEN "bridge" ELSE "original"

\* The rest of self.onmessage: the module is imported, the function called,
\* the response posted and the console restored
WorkerRun(w) ==
  /\ workers[w].status = "running"
  /\ ~workers[w].stuck
  /\ workers[w].inbox # <<>>
  /\ Head(workers[w].inbox).type = "execute"
  /\ workers[w].sink = "bridge"
  /\ LET data == Head(workers[w].inbox).data
         run == WorkerExecute(data, workers[w].foreign)
     IN  /\ workers' = [workers EXCEPT
                          ![w].inbox = Tail(@),
                          ![w].stuck = run.hangs,
                          ![w].outbox = @ \o run.events,
                          ![w].sink = RestoreConsole(run.hangs),
                          ![w].foreign = <<>>,
                          ![w].pending = IF run.invoked
                                         THEN @ \o LateCalls(data.script)
                                         ELSE @]
         /\ invoked' = [invoked EXCEPT ![LesseeOf(w)] = run.invoked]
  /\ UNCHANGED <<poolConfig, norm, http, variant, runCode, promise, outcome, settles, settledBy, isResolved,
                 timers, handle, workerPool, process>>

(***************************************************************************)
(* The ephemeral-worker executors (executor.ts, executor-common.ts).       *)
(* An event the worker had already queued for its parent may still be      *)
(* dispatched after worker.terminate(): the handlers are then entered with *)
(* the guard flag set.                                                     *)
(***************************************************************************)
ExecuteWorker(r, rc) ==
  /\ variant \in {"worker", "workerEE"}
  /\ CanCall(r)
  /\ Begin(r, rc)
  /\ workers' = [workers EXCEPT ![NewWorkerId] = StartedWorker(r, rc)]
  /\ handle' = [handle EXCEPT ![r] = [worker |-> NewWorkerId, shouldRecycle |-> FALSE]]
  /\ UNCHANGED <<workerPool, process, http>>

\* executor.ts: reject(new Error(data.error || "Unknown error"))
ExecutorRejection(data) ==
  NewError(OrElse(Get(data, "error"), Str("Unknown error")).v)

\* executor-common.ts: const { error: message, stack, code, logs } = data
CommonRejection(data) ==
  NewExecutionError(Get(data, "error"), Get(data, "stack"), Get(data, "code"),
                    Get(data, "logs"))

\* resolve({ result: data.result, logs: data.logs || [] })
WorkerResolution(data) == Resolved(Get(data, "result"), OrElse(Get(data, "logs"), Arr(<<>>)))

\* A rejection that passes the text of the error event on as it is
UnprefixedRejection(e) == NewError(OrElse(e.message, Str("Unknown error")).v)

\* new Error(`Worker error: ${error.message || "Unknown error"}`)
WorkerErrorRejection(e) ==
  NewError("Worker error: " \o OrElse(e.message, Str("Unknown error")).v)

\* The timeout callback
WorkerTimeout(r) ==
  /\ variant \in {"worker", "workerEE"}
  /\ timers[r].state = "armed"
  /\ timers' = [timers EXCEPT ![r].state = "fired"]
  /\ IF ~Guarded(r)
     THEN /\ isResolved' = [isResolved EXCEPT ![r] = TRUE]
          /\ workers' = [workers EXCEPT ![handle[r].worker].status = "terminated"]
          /\ Settle(r, "rejected", "timeout", NewError("Execution timeout"))
     ELSE UNCHANGED <<isResolved, workers, promise, outcome, settledBy, settles>>
  /\ UNCHANGED <<poolConfig, norm, http, variant, runCode, handle, workerPool, process, invoked>>

\* worker.onmessage
WorkerOnMessage(r, w) ==
  /\ variant \in {"worker", "workerEE"}
  /\ workers[w].outbox # <<>>
  /\ Head(workers[w].outbox).kind = "message"
  /\ workers[w].onmessage = r
  /\ LET data == Head(workers[w].outbox).data
     IN  IF Guarded(r)
         THEN /\ workers' = [workers EXCEPT ![w].outbox = Tail(@)]
              /\ UNCHANGED <<isResolved, timers, promise, outcome, settledBy, settles>>
         ELSE /\ isResolved' = [isResolved EXCEPT ![r] = TRUE]
              /\ timers' = ClearTimeout(timers, r)
              /\ workers' = [workers EXCEPT ![w].outbox = Tail(@),
                                            ![w].status = "terminated"]
              /\ IF Get(data, "type") = Str("success")
                 THEN Settle(r, "fulfilled", "message", WorkerResolution(data))
                 ELSE Settle(r, "rejected", "message",
                             IF variant = "worker" THEN ExecutorRejection(data)
                                                   ELSE CommonRejection(data))
  /\ UNCHANGED <<poolConfig, norm, http, variant, runCode, handle, workerPool, process, invoked>>

\* worker.onerror
WorkerOnError(r, w) ==
  /\ variant \in {"worker", "workerEE"}
  /\ workers[w].outbox # <<>>
  /\ Head(workers[w].outbox).kind = "error"
  /\ workers[w].onerror = r
  /\ IF Guarded(r)
     THEN /\ workers' = [workers EXCEPT ![w].outbox = Tail(@)]
          /\ UNCHANGED <<isResolved, timers, promise, outcome, settledBy, settles>>
     ELSE /\ isResolved' = [isResolved EXCEPT ![r] = TRUE]
          /\ timers' = ClearTimeout(timers, r)
          /\ workers' = [workers EXCEPT ![w].outbox = Tail(@),
                                        ![w].status = "terminated"]
          /\ Settle(r, "rejected", "errorEvent",
                    WorkerErrorRejection(Head(workers[w].outbox)))
  /\ UNCHANGED <<poolConfig, norm, http, variant, runCode, handle, workerPool, process, invoked>>

(***************************************************************************)
(* The HTTP server (server.ts), which runs its requests with the execute() *)
(* of executor.ts.                                                         *)
(***************************************************************************)
\* A request body that is not JSON text
NotJson == [t |-> "text", v |-> "not json"]

\* RunCodeSchema.parse(json): the first issue, "" when the body is accepted
SchemaIssue(json) ==
  IF json.t # "obj" THEN "Expected object"
  ELSE IF Get(json, "script").t # "str" \/ Get(json, "script") = Str("") THEN "script"
  ELSE IF Get(json, "fn").t # "str" \/ Get(json, "fn") = Str("") THEN "fn"
  ELSE IF Get(json, "payload").t # "obj" THEN "payload"
  ELSE IF Get(json, "timeout").t = "undef" THEN ""
  ELSE IF Get(json, "timeout").t # "num" THEN "timeout"
  ELSE IF Get(json, "timeout").v < 1 THEN "timeout"
  ELSE ""

\* The parsed RunCode: the four fields of the schema, any other key stripped
SchemaParse(json) ==
  [script |-> Get(json, "script").v, fn |-> Get(json, "fn").v,
   payload |-> Get(json, "payload"), timeout |-> Get(json, "timeout")]

\* Scripts sent over HTTP
ServedScripts == {"levels", "throws", "wrongName", "syntax", "loop", "hello", "cyclic"}

\* The body of a well-formed request, with or without an isolation field
RequestBody(r, script, isolation) ==
  Obj(<< <<"script", Str(script)>>, <<"fn", Str(RequestedFn(script))>>,
         <<"payload", Obj(<< <<"id", Num(r)>> >>)>> >>
      \o (IF isolation = Undef THEN <<>> ELSE << <<"isolation", isolation>> >>))

\* The HTTP requests call r may arrive as
HttpRequests(r) ==
  {[method |-> "POST", json |-> RequestBody(r, s, Undef)] : s \in ServedScripts}
  \cup {[method |-> "POST", json |-> RequestBody(r, "echo", Str(i))] : i \in {"process", "none"}}
  \cup {[method |-> "GET", json |-> Undef],
        [method |-> "POST", json |-> NotJson],
        [method |-> "POST",
         json |-> Obj(<< <<"script", Str("")>>, <<"fn", Str("run")>>,
                         <<"payload", Obj(<<>>)>> >>)],
        [method |-> "POST",
         json |-> Obj(<< <<"script", Str("echo")>>, <<"fn", Str("run")>>,
                         <<"payload", Obj(<<>>)>>, <<"timeout", Num(0)>> >>)]}

\* Response.json(data, { status })
JsonResponse(status, data) == [status |-> status, body |-> JsonRoundTrip(data)]

\* The catch block: Response.json({ error: e.message }, { status: 400 })
ErrorResponse(message) == JsonResponse(400, Obj(<< <<"error", message>> >>))

\* The handler up to its await: method test, req.json(), RunCodeSchema.parse
\* and the call of execute
Serve(r, req) ==
  /\ variant = "worker"
  /\ CanCall(r)
  /\ IF req.method # "POST"
     THEN /\ http' = [http EXCEPT ![r] =
                        [state |-> "responded", request |-> req,
                         response |-> [status |-> 405, body |-> Str("Only POST")]]]
          /\ UNCHANGED <<runCode, promise, isResolved, timers, workers, handle>>
     ELSE IF req.json = NotJson \/ SchemaIssue(req.json) # ""
     THEN /\ http' = [http EXCEPT ![r] =
                        [state |-> "responded", request |-> req,
                         response |-> ErrorResponse(
                           Str(IF req.json = NotJson
                               THEN "Unexpected token 'o', \"not json\" is not valid JSON"
                               ELSE "Invalid " \o SchemaIssue(req.json)))]]
          /\ UNCHANGED <<runCode, promise, isResolved, timers, workers, handle>>
     ELSE /\ http' = [http EXCEPT ![r].state = "awaiting", ![r].request = req]
          /\ runCode' = [runCode EXCEPT ![r] = SchemaParse(req.json)]
          /\ promise' = [promise EXCEPT ![r] = "pending"]
          /\ isResolved' = [isResolved EXCEPT ![r] = FALSE]
          /\ timers' = [timers EXCEPT ![r] =
                          [state |-> "armed", ms |-> TimeoutMs(SchemaParse(req.json))]]
          /\ workers' = [workers EXCEPT ![NewWorkerId] =
                           StartedWorker(r, SchemaParse(req.json))]
          /\ handle' = [handle EXCEPT ![r] = [worker |-> NewWorkerId,
                                              shouldRecycle |-> FALSE]]
  /\ UNCHANGED <<poolConfig, norm, variant, outcome, settles, settledBy, invoked, workerPool, process>>

\* The handler after its await: the success response, or the catch block
Respond(r) ==
  /\ variant = "worker"
  /\ http[r].state = "awaiting"
  /\ promise[r] \in {"fulfilled", "rejected"}
  /\ LET reply == Obj(<< <<"result", outcome[r].result>>, <<"logs", outcome[r].logs>> >>)
     IN  http' = [http EXCEPT
                    ![r].state = "responded",
                    ![r].response =
                      IF promise[r] = "rejected" THEN ErrorResponse(outcome[r].message)
                      ELSE IF JsonThrows(reply) THEN ErrorResponse(Str(CircularError.v[2]))
                      ELSE JsonResponse(200, reply)]
  /\ UNCHANGED <<poolConfig, norm, variant, runCode, promise, outcome, settles, settledBy, isResolved,
                 timers, handle, workers, workerPool, process, invoked>>

(***************************************************************************)
(* The pooled executor (src/utils/MIME_DETECTION.md).                      *)
(***************************************************************************)
\* A search that takes the first entry, busy or not
FirstIndex(pool) == IF Len(pool) > 0 THEN 1 ELSE 0

\* workerPool.find((w) => !w.busy): index of the first idle entry, 0 if none
IdleIndex(pool) ==
  IF \E i \in 1..Len(pool) : ~pool[i].busy
  THEN CHOOSE i \in 1..Len(pool) :
         ~pool[i].busy /\ \A j \in 1..(i - 1) : pool[j].busy
  ELSE 0

\* An acquisition that stores every Worker it constructs in the pool
AppendsWorker(pool, fresh, size, max) ==
  LET i == IdleIndex(pool)
  IN  IF i # 0
      THEN [pool |-> [pool EXCEPT ![i].busy = TRUE, ![i].requestCount = @ + 1],
            worker |-> pool[i].worker,
            shouldRecycle |-> pool[i].requestCount + 1 >= max,
            created |-> FALSE]
      ELSE [pool |-> Append(pool, [worker |-> fresh, busy |-> TRUE, requestCount |-> 1]),
            worker |-> fresh, shouldRecycle |-> FALSE, created |-> TRUE]

\* An acquisition that fills the pool up to its capacity before it reuses an
\* idle entry
CreatesBeforeIdle(pool, fresh, size, max) ==
  LET i == IdleIndex(pool)
  IN  IF Len(pool) < size
      THEN [pool |-> Append(pool, [worker |-> fresh, busy |-> TRUE, requestCount |-> 1]),
            worker |-> fresh, shouldRecycle |-> FALSE, created |-> TRUE]
      ELSE IF i # 0
      THEN [pool |-> [pool EXCEPT ![i].busy = TRUE, ![i].requestCount = @ + 1],
            worker |-> pool[i].worker,
            shouldRecycle |-> pool[i].requestCount + 1 >= max,
            created |-> FALSE]
      ELSE [pool |-> pool, worker |-> fresh, shouldRecycle |-> TRUE, created |-> TRUE]

\* getOrCreateWorker(): the pool afterwards, the worker handed out (fresh is
\* the Worker a constructor call would create), shouldRecycle, and whether a
\* Worker was constructed
GetOrCreateWorker(pool, fresh, size, max) ==
  LET i == IdleIndex(pool)
  IN  IF i # 0
      THEN [pool |-> [pool EXCEPT ![i].busy = TRUE, ![i].requestCount = @ + 1],
            worker |-> pool[i].worker,
            shouldRecycle |-> pool[i].requestCount + 1 >= max,
            created |-> FALSE]
      ELSE IF Len(pool) < size
      THEN [pool |-> Append(pool, [worker |-> fresh, busy |-> TRUE, requestCount |-> 1]),
            worker |-> fresh, shouldRecycle |-> FALSE, created |-> TRUE]
      ELSE [pool |-> pool, worker |-> fresh, shouldRecycle |-> TRUE, created |-> TRUE]

\* workerPool.indexOf(poolEntry) for the entry of the worker, 0 if none
EntryIndex(pool, worker) ==
  IF \E i \in 1..Len(pool) : pool[i].worker = worker
  THEN CHOOSE i \in 1..Len(pool) :
         pool[i].worker = worker /\ \A j \in 1..(i - 1) : pool[j].worker # worker
  ELSE 0

\* A release that marks the first busy entry idle, whoever leased it
ReleasesAny(pool, worker, shouldRecycle) ==
  IF \E i \in 1..Len(pool) : pool[i].busy
  THEN [pool |-> [pool EXCEPT ![CHOOSE i \in 1..Len(pool) :
                                   pool[i].busy /\ \A j \in 1..(i - 1) : ~pool[j].busy]
                                .busy = FALSE],
        terminate |-> EntryIndex(pool, worker) = 0]
  ELSE [pool |-> pool, terminate |-> TRUE]

\* A release that returns every pooled worker to the pool as idle
MarksIdle(pool, worker, shouldRecycle) ==
  LET index == EntryIndex(pool, worker)
  IN  IF index # 0
      THEN [pool |-> [pool EXCEPT ![index].busy = FALSE], terminate |-> FALSE]
      ELSE [pool |-> pool, terminate |-> TRUE]

\* releaseWorker(worker, shouldRecycle): the pool afterwards and whether
\* worker.terminate() is called
ReleaseWorker(pool, worker, shouldRecycle) ==
  LET index == EntryIndex(pool, worker)
  IN  IF index # 0
      THEN IF shouldRecycle
           THEN [pool |-> SubSeq(pool, 1, index - 1) \o SubSeq(pool, index + 1, Len(pool)),
                 terminate |-> TRUE]
           ELSE [pool |-> [pool EXCEPT ![index].busy = FALSE], terminate |-> FALSE]
      ELSE [pool |-> pool, terminate |-> TRUE]

ExecutePool(r, rc) ==
  /\ variant = "pool"
  /\ CanCall(r)
  /\ Begin(r, rc)
  /\ LET got == GetOrCreateWorker(workerPool, NewWorkerId, poolConfig.size,
                                  poolConfig.max)
         message == StartedWorker(r, rc).inbox
     IN  /\ workerPool' = got.pool
         /\ handle' = [handle EXCEPT ![r] = [worker |-> got.worker,
                                             shouldRecycle |-> got.shouldRecycle]]
         /\ workers' = IF got.created
                       THEN [workers EXCEPT ![got.worker] = StartedWorker(r, rc)]
                       ELSE [workers EXCEPT ![got.worker].onmessage = r,
                                            ![got.worker].onerror = r,
                                            ![got.worker].inbox = @ \o message]
  /\ UNCHANGED <<process, http>>

\* A release that never terminates the Worker
Unreleased(ws, w, release) == ws

\* The effect of releaseWorker on the Worker objects
Released(ws, w, release) ==
  IF release.terminate THEN [ws EXCEPT ![w].status = "terminated"] ELSE ws

\* The timeout callback
PoolTimeout(r) ==
  /\ variant = "pool"
  /\ timers[r].state = "armed"
  /\ timers' = [timers EXCEPT ![r].state = "fired"]
  /\ IF ~Guarded(r)
     THEN LET release == ReleaseWorker(workerPool, handle[r].worker, TRUE)
          IN  /\ isResolved' = [isResolved EXCEPT ![r] = TRUE]
              /\ workerPool' = release.pool
              /\ workers' = Released(workers, handle[r].worker, release)
              /\ Settle(r, "rejected", "timeout", NewError("Execution timeout"))
     ELSE UNCHANGED <<isResolved, workerPool, workers, promise, outcome, settledBy, settles>>
  /\ UNCHANGED <<poolConfig, norm, http, variant, runCode, handle, process, invoked>>

\* const { message, stack, code, logs } = data
PoolRejection(data) ==
  NewExecutionError(Get(data, "message"), Get(data, "stack"), Get(data, "code"),
                    Get(data, "logs"))

\* resolve({ result: convertedResult, logs: data.logs || [] })
PoolResolution(data) ==
  Resolved(convertBuffersToDataUris(Get(data, "result")),
           OrElse(Get(data, "logs"), Arr(<<>>)))

\* onMessage
PoolOnMessage(r, w) ==
  /\ variant = "pool"
  /\ workers[w].outbox # <<>>
  /\ Head(workers[w].outbox).kind = "message"
  /\ workers[w].onmessage = r
  /\ LET data == Head(workers[w].outbox).data
         taken == [workers EXCEPT ![w].outbox = Tail(@)]
         quiet == [taken EXCEPT ![w].onmessage = 0, ![w].onerror = 0]
         success == Get(data, "type") = Str("success")
         release == ReleaseWorker(workerPool, w, IF success THEN handle[r].shouldRecycle
                                                            ELSE TRUE)
     IN  IF Guarded(r)
         THEN /\ workers' = taken
              /\ UNCHANGED <<isResolved, timers, workerPool, promise, outcome, settledBy,
                             settles>>
         ELSE /\ isResolved' = [isResolved EXCEPT ![r] = TRUE]
              /\ timers' = ClearTimeout(timers, r)
              /\ IF success /\ ConvertThrows(Get(data, "result"))
                 THEN \* convertBuffersToDataUris throws: the handler ends here
                      /\ workers' = quiet
                      /\ UNCHANGED <<workerPool, promise, outcome, settledBy, settles>>
                 ELSE /\ workerPool' = release.pool
                      /\ workers' = Released(quiet, w, release)
                      /\ IF success
                         THEN Settle(r, "fulfilled", "message", PoolResolution(data))
                         ELSE Settle(r, "rejected", "message", PoolRejection(data))
  /\ UNCHANGED <<poolConfig, norm, http, variant, runCode, handle, process, invoked>>

\* onError
PoolOnError(r, w) ==
  /\ variant = "pool"
  /\ workers[w].outbox # <<>>
  /\ Head(workers[w].outbox).kind = "error"
  /\ workers[w].onerror = r
  /\ LET taken == [workers EXCEPT ![w].outbox = Tail(@)]
         quiet == [taken EXCEPT ![w].onmessage = 0, ![w].onerror = 0]
         release == ReleaseWorker(workerPool, w, TRUE)
     IN  IF Guarded(r)
         THEN /\ workers' = taken
              /\ UNCHANGED <<isResolved, timers, workerPool, promise, outcome, settledBy,
                             settles>>
         ELSE /\ isResolved' = [isResolved EXCEPT ![r] = TRUE]
              /\ timers' = ClearTimeout(timers, r)
              /\ workerPool' = release.pool
              /\ workers' = Released(quiet, w, release)
              /\ Settle(r, "rejected", "errorEvent",
                        WorkerErrorRejection(Head(workers[w].outbox)))
  /\ UNCHANGED <<poolConfig, norm, http, variant, runCode, handle, process, invoked>>

(***************************************************************************)
(* The subprocess executor (src/unnamed/part_004).                         *)
(***************************************************************************)
ExecuteProcess(r, rc) ==
  /\ variant = "process"
  /\ CanCall(r)
  /\ Begin(r, rc)
  /\ process' = [process EXCEPT ![r].state = "running"]
  /\ UNCHANGED <<handle, workers, workerPool, http>>

\* The child runs worker-process.ts on the request written to its stdin and
\* exits, unless the user code never returns
ProcessRun(r) ==
  /\ variant = "process"
  /\ process[r].state = "running"
  /\ ~process[r].looping
  /\ LET run == ProcessExecute(runCode[r])
     IN  /\ process' = [process EXCEPT ![r] =
                          IF run.hangs
                          THEN [@ EXCEPT !.looping = TRUE]
                          ELSE [state |-> "exited", looping |-> FALSE,
                                success |-> run.success, stdout |-> run.stdout,
                                stderr |-> run.stderr]]
         /\ invoked' = [invoked EXCEPT ![r] = run.invoked]
  /\ UNCHANGED <<poolConfig, norm, http, variant, runCode, promise, outcome, settles, settledBy, isResolved,
                 timers, handle, workers, workerPool>>

\* The timeout callback.  process.kill() throws once the child's exit status
\* has been collected, and the callback ends there
ProcessTimeout(r) ==
  /\ variant = "process"
  /\ timers[r].state = "armed"
  /\ timers' = [timers EXCEPT ![r].state = "fired"]
  /\ IF ~Guarded(r)
     THEN /\ isResolved' = [isResolved EXCEPT ![r] = TRUE]
          /\ IF process[r].state = "running"
             THEN /\ process' = [process EXCEPT ![r].state = "killed"]
                  /\ Settle(r, "rejected", "timeout",
                            NewExecutionError(Str("Execution timeout"), Undef,
                                              Str("TIMEOUT_ERROR"), Undef))
             ELSE UNCHANGED <<process, promise, outcome, settledBy, settles>>
     ELSE UNCHANGED <<isResolved, process, promise, outcome, settledBy, settles>>
  /\ UNCHANGED <<poolConfig, norm, http, variant, runCode, handle, workers, workerPool, invoked>>

\* An executor that never looks for the out-of-memory signature
NeverMemoryError(errorOutput) == FALSE

\* errorOutput.includes("out of memory") || errorOutput.includes("OOM")
IsMemoryError(errorOutput) ==
  Includes(errorOutput, "out of memory") \/ Includes(errorOutput, "OOM")

\* JSON.parse(output): the output is one JSON text, or the parse throws
ParseOutput(stdout) ==
  IF Len(stdout) = 1 /\ stdout[1].k = "json"
  THEN [ok |-> TRUE, value |-> stdout[1].v, error |-> ""]
  ELSE [ok |-> FALSE, value |-> Undef,
        error |-> IF Len(stdout) = 0
                  THEN "SyntaxError: Unexpected end of JSON input"
                  ELSE "SyntaxError: Unexpected non-whitespace character after JSON"]

\* The rejection or resolution computed from a collected output
ProcessOutcome(success, stdout, errorOutput) ==
  LET parsed == ParseOutput(stdout)
      result == parsed.value
  IN  IF ~success
      THEN IF IsMemoryError(errorOutput)
           THEN [kind |-> "rejected",
                 o |-> NewExecutionError(Str("Memory limit exceeded"), Str(errorOutput),
                                         Str("MEMORY_ERROR"), Undef)]
           ELSE [kind |-> "rejected",
                 o |-> NewExecutionError(Str("Process failed"), Str(errorOutput),
                                         Undef, Undef)]
      ELSE IF ~parsed.ok \/ result.t \in {"null", "undef"}
      THEN [kind |-> "rejected",
            o |-> NewExecutionError(Str("Failed to parse output"),
                                    Str(IF parsed.ok
                                        THEN "TypeError: Cannot read properties of null"
                                        ELSE parsed.error),
                                    Undef, Undef)]
      ELSE IF Get(result, "type") = Str("success")
      THEN [kind |-> "fulfilled",
            o |-> Resolved(Get(result, "result"), OrElse(Get(result, "logs"), Arr(<<>>)))]
      ELSE [kind |-> "rejected",
            o |-> NewExecutionError(Get(result, "error"), Get(result, "stack"),
                                    Get(result, "code"), Get(result, "logs"))]

\* The continuation of await process.output()
ProcessOutput(r) ==
  /\ variant = "process"
  /\ process[r].state \in {"exited", "killed"}
  /\ process' = [process EXCEPT ![r].state = "collected"]
  /\ IF Guarded(r)
     THEN UNCHANGED <<isResolved, timers, promise, outcome, settledBy, settles>>
     ELSE LET out == ProcessOutcome(process[r].success, process[r].stdout,
                                    process[r].stderr)
          IN  /\ isResolved' = [isResolved EXCEPT ![r] = TRUE]
              /\ timers' = ClearTimeout(timers, r)
              /\ Settle(r, out.kind, "output", out.o)
  /\ UNCHANGED <<poolConfig, norm, http, variant, runCode, handle, workers, workerPool, invoked>>

\* process.output() rejects (reading the child's pipes fails): the outer catch
ProcessOutputRejects(r) ==
  /\ variant = "process"
  /\ process[r].state = "exited"
  /\ process' = [process EXCEPT ![r].state = "collected"]
  /\ IF ~Guarded(r)
     THEN /\ isResolved' = [isResolved EXCEPT ![r] = TRUE]
          /\ timers' = ClearTimeout(timers, r)
          /\ Settle(r, "rejected", "outputError",
                    NewExecutionError(Str("Process error"), Str("Error: read failed"),
                                      Undef, Undef))
     ELSE UNCHANGED <<isResolved, timers, promise, outcome, settledBy, settles>>
  /\ UNCHANGED <<poolConfig, norm, http, variant, runCode, handle, workers, workerPool, invoked>>

Next ==
  \/ \E r \in Reqs : \E rc \in RunCodes(variant, r) : ExecuteWorker(r, rc)
  \/ \E r \in Reqs : \E rc \in RunCodes(variant, r) : ExecutePool(r, rc)
  \/ \E r \in Reqs : \E rc \in RunCodes(variant, r) : ExecuteProcess(r, rc)
  \/ \E w \in WorkerIds : WorkerBegin(w)
  \/ \E w \in WorkerIds : WorkerCallback(w)
  \/ \E w \in WorkerIds : WorkerRun(w)
  \/ \E r \in Reqs : WorkerTimeout(r)
  \/ \E r \in Reqs, w \in WorkerIds : WorkerOnMessage(r, w)
  \/ \E r \in Reqs, w \in WorkerIds : WorkerOnError(r, w)
  \/ \E r \in Reqs : PoolTimeout(r)
  \/ \E r \in Reqs, w \in WorkerIds : PoolOnMessage(r, w)
  \/ \E r \in Reqs, w \in WorkerIds : PoolOnError(r, w)
  \/ \E r \in Reqs : ProcessRun(r)
  \/ \E r \in Reqs : ProcessTimeout(r)
  \/ \E r \in Reqs : ProcessOutput(r)
  \/ \E r \in Reqs : ProcessOutputRejects(r)
  \/ \E r \in Reqs : \E req \in HttpRequests(r) : Serve(r, req)
  \/ \E r \in Reqs : Respond(r)

Spec == Init /\ [][Next]_vars

\* One turn of the event loop or of a sandbox: a timer callback, a sandbox
\* run, or the handler of a delivered event or of a collected output
Dispatch ==
  \/ \E r \in Reqs : WorkerTimeout(r) \/ PoolTimeout(r) \/ ProcessTimeout(r)
  \/ \E w \in WorkerIds : WorkerBegin(w)
  \/ \E w \in WorkerIds : WorkerCallback(w)
  \/ \E w \in WorkerIds : WorkerRun(w)
  \/ \E r \in Reqs : ProcessRun(r) \/ ProcessOutput(r) \/ Respond(r)
  \/ \E r \in Reqs, w \in WorkerIds :
       \/ WorkerOnMessage(r, w) \/ WorkerOnError(r, w)
       \/ PoolOnMessage(r, w) \/ PoolOnError(r, w)

\* The event loop is fair: as long as a timer is armed, a sandbox can run or an
\* event waits for its handler, one of them is eventually served
FairSpec == Spec /\ WF_vars(Dispatch)

(***************************************************************************)
(* Direct uses of the result normaliser and of the functions under it      *)
(* (server.ts lines 32-190): convertBuffersToDataUris applied to a value    *)
(* and to its own result, detectMimeType and bufferToDataUri applied to a   *)
(* buffer.                                                                  *)
(***************************************************************************)
\* The size of the sample detectMimeType decodes as text
SAMPLE_BYTES == 512

\* Byte contents of the buffers, by name
Bytes(name) ==
  CASE name = "empty" ->  \* new Uint8Array([])
         <<>>
    [] name = "png" ->  \* the PNG signature
         <<137, 80, 78, 71, 13, 10, 26, 10>>
    [] name = "jpeg" ->  \* the JPEG signature
         <<255, 216, 255, 224>>
    [] name = "one" ->  \* one byte, not UTF-8
         <<255>>
    [] name = "two" ->  \* two bytes, not UTF-8
         <<251, 255>>
    [] name = "three" ->  \* three control bytes
         <<0, 1, 2>>
    [] name = "mp42" ->  \* an MP4 file header: box size 24, ftyp, brand mp42
         <<0, 0, 0, 24, 102, 116, 121, 112, 109, 112, 52, 50>>
    [] name = "isom" ->  \* an MP4 file header: box size 32, ftyp, brand isom
         <<0, 0, 0, 32, 102, 116, 121, 112, 105, 115, 111, 109>>
    [] name = "avif" ->  \* an AVIF file header: box size 28, ftyp, brand avif
         <<0, 0, 0, 28, 102, 116, 121, 112, 97, 118, 105, 102>>
    [] name = "mdat" ->  \* a media data box: box size 8, mdat
         <<0, 0, 0, 8, 109, 100, 97, 116>>
    [] name = "hello" ->  \* Hello
         <<72, 101, 108, 108, 111>>
    [] name = "json" ->  \* {"a":1}
         <<123, 34, 97, 34, 58, 49, 125>>
    [] name = "html" ->  \* <html></html>
         <<60, 104, 116, 109, 108, 62, 60, 47, 104, 116, 109, 108, 62>>
    [] name = "xml" ->  \* <a/>
         <<60, 97, 47, 62>>
    [] name = "prologXml" ->  \* an XML declaration and <note/>
         <<60, 63, 120, 109, 108, 32, 118, 101, 114, 115, 105, 111, 110, 61, 34, 49, 46, 48, 34, 63, 62, 60, 110, 111, 116, 101, 47, 62>>
    [] name = "svg" ->  \* <svg></svg>
         <<60, 115, 118, 103, 62, 60, 47, 115, 118, 103, 62>>
    [] name = "upperSvg" ->  \* <SVG></SVG>
         <<60, 83, 86, 71, 62, 60, 47, 83, 86, 71, 62>>
    [] name = "spaceSvg" ->  \* a line feed and <svg></svg>
         <<10, 60, 115, 118, 103, 62, 60, 47, 115, 118, 103, 62>>
    [] name = "prologSvg" ->  \* an XML declaration and <svg></svg>
         <<60, 63, 120, 109, 108, 32, 118, 101, 114, 115, 105, 111, 110, 61, 34, 49, 46, 48, 34, 63, 62, 60, 115, 118, 103, 62, 60, 47, 115, 118, 103, 62>>
    [] name = "spacePrologSvg" ->  \* a line feed, an XML declaration and <svg></svg>
         <<10, 60, 63, 120, 109, 108, 32, 118, 101, 114, 115, 105, 111, 110, 61, 34, 49, 46, 48, 34, 63, 62, 60, 115, 118, 103, 62, 60, 47, 115, 118, 103, 62>>
    [] name = "foreignObjectSvg" ->  \* a line feed and an SVG document with HTML in a foreignObject
         <<10, 60, 115, 118, 103, 62, 60, 102, 111, 114, 101, 105, 103, 110, 79, 98, 106, 101, 99, 116, 62, 60, 104, 116, 109, 108, 62, 60, 47, 104, 116, 109, 108, 62, 60, 47, 102, 111, 114, 101, 105, 103, 110, 79, 98, 106, 101, 99, 116, 62, 60, 47, 115, 118, 103, 62>>
    [] name = "longPrologSvg" ->
         \* a line feed, an XML declaration, a comment of as many letters x as
         \* the text sample is long, and <svg></svg>
         <<10, 60, 63, 120, 109, 108, 32, 118, 101, 114, 115, 105, 111, 110, 61, 34, 49, 46, 48, 34, 63, 62>> \o <<60, 33, 45, 45>>
           \o [i \in 1..SAMPLE_BYTES |-> 120] \o <<45, 45, 62>> \o <<60, 115, 118, 103, 62, 60, 47, 115, 118, 103, 62>>

BufferNames ==
  {"empty", "png", "jpeg", "one", "two", "three",
   "mp42", "isom", "avif", "mdat", "hello", "json",
   "html", "xml", "prologXml", "svg", "upperSvg", "spaceSvg", "prologSvg",
   "spacePrologSvg", "foreignObjectSvg", "longPrologSvg"}

NormBuffers == {Bytes(name) : name \in BufferNames}

\* Values without a buffer
BufferFree ==
  {Undef, Null, Num(1), Str("a"), Bool(TRUE), Inst("Date"), Arr(<<>>), Obj(<<>>),
   Str("data:image/png;base64,iVBORw0KGgo="),
   Arr(<< Num(1), Str("a"), Null >>),
   Arr(<< Inst("Date"), Arr(<< Num(2) >>) >>),
   Obj(<< <<"a", Num(1)>>, <<"b", Arr(<< Str("x") >>)>> >>),
   Obj(<< <<"constructor", Str("Builder")>>, <<"n", Num(1)>> >>)}

\* Sequences and mappings holding buffers at several depths
Nested ==
  {Arr(<< Buf(Bytes("png")), Num(1), Buf(Bytes("hello")) >>),
   Obj(<< <<"image", Buf(Bytes("png"))>>, <<"name", Str("test")>> >>),
   Obj(<< <<"image", Buf(Bytes("png"))>>,
          <<"items", Arr(<< Buf(Bytes("jpeg")), Obj(<< <<"data", Buf(Bytes("hello"))>> >>) >>)>> >>),
   Arr(<< Arr(<< Buf(Bytes("empty")) >>), Inst("Date") >>),
   Obj(<< <<"constructor", Str("Builder")>>, <<"data", Buf(Bytes("png"))>> >>),
   Obj(<< <<"meta", Obj(<< <<"constructor", Num(1)>>, <<"thumb", Buf(Bytes("jpeg"))>> >>)>> >>),
   Arr(<< Cycle >>)}

\* The arguments the normaliser is applied to
NormInputs == BufferFree \cup Nested \cup {Buf(b) : b \in NormBuffers}

NormInit ==
  /\ variant = "pool"
  /\ NoCalls
  /\ \E value \in NormInputs : norm = [NoNorm EXCEPT !.stage = "input", !.input = value]
  /\ poolConfig = DeclaredConfig

\* convertBuffersToDataUris(input)
Normalize ==
  /\ norm.stage = "input"
  /\ norm' = IF ConvertThrows(norm.input)
             THEN [norm EXCEPT !.stage = "threw"]
             ELSE [norm EXCEPT !.stage = "normalized",
                               !.output = convertBuffersToDataUris(norm.input),
                               !.same = ReturnsArgument(norm.input)]
  /\ UNCHANGED <<variant, runCode, promise, outcome, settles, settledBy, isResolved,
                 timers, handle, workers, workerPool, process, invoked, http,
                 poolConfig>>

\* convertBuffersToDataUris applied to its own result
NormalizeAgain ==
  /\ norm.stage = "normalized"
  /\ norm' = [norm EXCEPT !.stage = "renormalized",
                          !.again = convertBuffersToDataUris(norm.output)]
  /\ UNCHANGED <<variant, runCode, promise, outcome, settles, settledBy, isResolved,
                 timers, handle, workers, workerPool, process, invoked, http,
                 poolConfig>>

\* detectMimeType(input), the input being a buffer
DetectMime ==
  /\ norm.stage # "idle"
  /\ norm.input.t = "buf"
  /\ norm.mime = ""
  /\ norm' = [norm EXCEPT !.mime = detectMimeType(norm.input.v)]
  /\ UNCHANGED <<variant, runCode, promise, outcome, settles, settledBy, isResolved,
                 timers, handle, workers, workerPool, process, invoked, http,
                 poolConfig>>

\* bufferToDataUri(input), the input being a buffer
EncodeBuffer ==
  /\ norm.stage # "idle"
  /\ norm.input.t = "buf"
  /\ norm.uri = ""
  /\ norm' = [norm EXCEPT !.uri = bufferToDataUri(norm.input.v)]
  /\ UNCHANGED <<variant, runCode, promise, outcome, settles, settledBy, isResolved,
                 timers, handle, workers, workerPool, process, invoked, http,
                 poolConfig>>

NormNext == Normalize \/ NormalizeAgain \/ DetectMime \/ EncodeBuffer

NormSpec == NormInit /\ [][NormNext]_vars

(***************************************************************************)
(* The pooled executor alone, with its two constants scaled down so that   *)
(* the calls of the model fill the pool and reach the recycling threshold. *)
(***************************************************************************)
PoolConfigs == [size : 1..MaxCapacity, max : 1..MaxThreshold]

PoolInit ==
  /\ variant = "pool"
  /\ NoCalls
  /\ norm = NoNorm
  /\ poolConfig \in PoolConfigs

PoolNext ==
  \/ \E r \in Reqs : \E rc \in RunCodes("pool", r) : ExecutePool(r, rc)
  \/ \E w \in WorkerIds : WorkerBegin(w)
  \/ \E w \in WorkerIds : WorkerCallback(w)
  \/ \E w \in WorkerIds : WorkerRun(w)
  \/ \E r \in Reqs : PoolTimeout(r)
  \/ \E r \in Reqs : \E w \in WorkerIds : PoolOnMessage(r, w)
  \/ \E r \in Reqs : \E w \in WorkerIds : PoolOnError(r, w)

PoolSpec == PoolInit /\ [][PoolNext]_vars

(***************************************************************************)
(* Properties.                                                             *)
(***************************************************************************)
\* The handle of call r is destroyed: its worker is terminated and in no pool
\* entry, or its child process is no longer running
HandleDestroyed(r) ==
  IF variant = "process"
  THEN process[r].state # "running"
  ELSE /\ workers[handle[r].worker].status = "terminated"
       /\ EntryIndex(workerPool, handle[r].worker) = 0

\* The promise of call r was settled by its sandbox's response
SettledByResponse(r) == settledBy[r] \in {"message", "output"}

\* C1: once the deadline timer of a call has fired, the call is rejected with
\* message exactly "Execution timeout", its handle is destroyed, and that
\* rejection - made by the timeout callback, carrying no result and no log
\* entry - is the only settlement the caller ever sees.
C1_TimeoutRejects ==
  \A r \in Reqs :
    timers[r].state = "fired" =>
      /\ promise[r] = "rejected"
      /\ outcome[r].message = Str("Execution timeout")
      /\ settledBy[r] = "timeout"
      /\ settles[r] = 1
      /\ outcome[r].result = Undef
      /\ outcome[r].logs \in {Undef, Arr(<<>>)}
      /\ HandleDestroyed(r)

\* No earlier call ran in the sandbox of call r: callbacks that the code of
\* an earlier, settled call left behind in a reused worker are not in play
NoEarlierTenant(r) ==
  \A q \in Reqs :
    (q < r /\ handle[q].worker \in WorkerIds) => handle[q].worker # handle[r].worker

\* C2: calls in flight together do not affect each other: a call running the
\* echo script whose own sandbox answers resolves with the result made from
\* its own payload and - in a sandbox no earlier call has used - with its own
\* log entry alone; a call running the endless loop settles only by "Execution
\* timeout"; and no call whose sandbox could end fails with "Execution timeout"
\* otherwise than by its own deadline.
C2_Isolation ==
  \A r \in Reqs :
    /\ (runCode[r].script = "echo" /\ SettledByResponse(r)) =>
         /\ promise[r] = "fulfilled"
         /\ outcome[r].result =
              Obj(<< <<"id", Num(r)>>, <<"result", Str("success")>> >>)
         /\ NoEarlierTenant(r) =>
              outcome[r].logs =
                Arr(<< LogEntry(1, "log", <<"Processing request " \o NumToString(r)>>) >>)
    /\ (runCode[r].script = "loop" /\ promise[r] \in {"fulfilled", "rejected"}) =>
         /\ promise[r] = "rejected"
         /\ settledBy[r] = "timeout"
         /\ outcome[r].message = Str("Execution timeout")
    /\ (promise[r] \in {"fulfilled", "rejected"} /\ settledBy[r] # "timeout") =>
         outcome[r].message # Str("Execution timeout")

\* An echo call has resolved while a call running the endless loop is still
\* in flight, stuck in the user's function
C2_Witness ==
  \E r, q \in Reqs :
    /\ runCode[r].script = "loop" /\ promise[r] = "pending" /\ invoked[r]
    /\ runCode[q].script = "echo" /\ promise[q] = "fulfilled"

\* C3: every call eventually settles, given a fair deadline timer.
C3_EventuallySettles ==
  \A r \in Reqs : (promise[r] = "pending") ~> (promise[r] \in {"fulfilled", "rejected"})

\* C4: resolve/reject are called at most once per call, and an event handled
\* for a call whose guard flag is already set changes nothing but the queue
\* it is taken from: not the promise, the timer, the pool or any worker.
C4_SettledOnce ==
  /\ [](\A r \in Reqs : settles[r] <= 1)
  /\ [][\A r \in Reqs :
          (/\ isResolved[r]
           /\ \/ \E w \in WorkerIds :
                   \/ WorkerOnMessage(r, w) \/ WorkerOnError(r, w)
                   \/ PoolOnMessage(r, w) \/ PoolOnError(r, w)
              \/ ProcessOutput(r)
              \/ ProcessOutputRejects(r))
          => /\ UNCHANGED <<promise, outcome, settles, settledBy, isResolved, timers,
                            workerPool, handle>>
             /\ \A w \in WorkerIds :
                  /\ workers'[w].status = workers[w].status
                  /\ workers'[w].onmessage = workers[w].onmessage
                  /\ workers'[w].onerror = workers[w].onerror
                  /\ workers'[w].inbox = workers[w].inbox]_vars

\* The output of a killed child was collected after the timeout had already
\* rejected the call
C4_Witness ==
  \E r \in Reqs :
    /\ variant = "process"
    /\ settledBy[r] = "timeout"
    /\ process[r].state = "collected"
    /\ settles[r] = 1

C6_BufferNormalised ==
  \A r \in Reqs :
    (runCode[r].script = "hello" /\ promise[r] = "fulfilled") =>
      outcome[r].result = Str("data:text/plain;base64,SGVsbG8=")

\* C7: a call whose script exports no function under the requested name is
\* rejected, when its sandbox answers, with message
\* "Code must export function <fn>" (worker executors) or
\* "Function "<fn>" not found in module" (subprocess executor), and the
\* user's function is not called.
C7_MissingFunction ==
  \A r \in Reqs :
    (runCode[r].script \in {"wrongName", "notCallable"} /\ SettledByResponse(r)) =>
      /\ promise[r] = "rejected"
      /\ outcome[r].message =
           Str(IF variant = "process"
               THEN "Function \"" \o runCode[r].fn \o "\" not found in module"
               ELSE "Code must export function " \o runCode[r].fn)
      /\ ~invoked[r]

\* C8: a call whose function logs and then throws an Error is rejected, when
\* its sandbox answers, with the thrown error's message, its stack and exactly
\* the entries logged before the throw, in every executor.
C8_ThrownError ==
  \A r \in Reqs :
    (runCode[r].script = "throws" /\ SettledByResponse(r)) =>
      /\ promise[r] = "rejected"
      /\ outcome[r].message = Str("Intentional error for testing")
      /\ outcome[r].stack =
           Str("Error: Intentional error for testing\n    at <anonymous>")
      /\ outcome[r].logs = Arr(<< LogEntry(1, "log", <<"About to throw error...">>) >>)

\* The console calls that callbacks left behind by earlier calls on the
\* worker of call r can make while the invocation of r is running
LeftoverCalls(r) ==
  {c \in UNION {{LateCalls(runCode[q].script)[i] :
                   i \in 1..Len(LateCalls(runCode[q].script))} : q \in Reqs} :
     \E q \in Reqs :
       /\ q < r
       /\ handle[q].worker = handle[r].worker
       /\ \E i \in 1..Len(LateCalls(runCode[q].script)) :
            LateCalls(runCode[q].script)[i] = c}

\* C9: the logs of a resolved call are exactly the console calls made during
\* its invocation: the calls its function made - as many entries, in emission
\* order, each with the level of the method called and the message made of its
\* arguments - after the calls made meanwhile by callbacks left in its
\* sandbox, every entry numbered in emission order.
C9_LogsForwarded ==
  \A r \in Reqs :
    promise[r] = "fulfilled" =>
      LET calls == FunctionCalls(runCode[r].script, runCode[r].payload)
          logs == outcome[r].logs
          extra == Len(logs.v) - Len(calls)
      IN  /\ logs.t = "arr"
          /\ extra >= 0
          /\ \A i \in 1..Len(calls) :
               /\ Get(logs.v[extra + i], "level") = Str(calls[i][1])
               /\ Get(logs.v[extra + i], "message") = Str(JoinSpace(calls[i][2]))
               /\ Get(logs.v[extra + i], "ts") = Num(extra + i)
          /\ \A j \in 1..extra :
               \E c \in LeftoverCalls(r) :
                 /\ Get(logs.v[j], "level") = Str(c[1])
                 /\ Get(logs.v[j], "message") = Str(JoinSpace(c[2]))
                 /\ Get(logs.v[j], "ts") = Num(j)

\* The call that logs at the four levels has resolved with four entries
C9_Witness ==
  \E r \in Reqs :
    /\ runCode[r].script = "levels"
    /\ promise[r] = "fulfilled"
    /\ Len(outcome[r].logs.v) = 4
    /\ Get(outcome[r].logs.v[3], "level") = Str("warn")

\* C10: in the subprocess executor, a child that exited with a non-zero
\* status before the deadline rejects the call: with code MEMORY_ERROR exactly
\* when its stderr contains "out of memory" or "OOM", and otherwise with
\* "Process failed" and the stderr text as stack; never with a value and never
\* with the error object the child may have printed.
C10_NonZeroExit ==
  \A r \in Reqs :
    (variant = "process" /\ settledBy[r] = "output" /\ ~process[r].success) =>
      LET stderr == process[r].stderr
          signature == Includes(stderr, "out of memory") \/ Includes(stderr, "OOM")
      IN  /\ promise[r] = "rejected"
          /\ outcome[r].cls = "ExecutionError"
          /\ outcome[r].result = Undef
          /\ outcome[r].stack = Str(stderr)
          /\ outcome[r].code = Str("MEMORY_ERROR") <=> signature
          /\ signature => outcome[r].message = Str("Memory limit exceeded")
          /\ ~signature => /\ outcome[r].message = Str("Process failed")
                           /\ outcome[r].code = Undef

\* One child died out of memory and another exited non-zero after printing a
\* well-formed success object; both calls were rejected accordingly
C10_Witness ==
  \E r, q \in Reqs :
    /\ runCode[r].script = "oom" /\ outcome[r].code = Str("MEMORY_ERROR")
    /\ runCode[q].script = "fakeOutput" /\ outcome[q].message = Str("Process failed")
    /\ process[q].stdout # <<>>

\* C11: in the subprocess executor a child that exited with status zero is
\* mapped by its stdout alone.  Stdout that is not the text of one JSON object
\* rejects with "Failed to parse output"; an object of type "success" resolves
\* with its result and logs; an object of type "error" rejects with that
\* object's message, stack, code and logs.
C11_ZeroExitMapping ==
  \A r \in Reqs :
    (variant = "process" /\ settledBy[r] = "output" /\ process[r].success) =>
      LET stdout == process[r].stdout
          oneObject == Len(stdout) = 1 /\ stdout[1].k = "json" /\ stdout[1].v.t = "obj"
          object == stdout[1].v
      IN  IF ~oneObject
          THEN /\ promise[r] = "rejected"
               /\ outcome[r].message = Str("Failed to parse output")
          ELSE IF Get(object, "type") = Str("success")
          THEN /\ promise[r] = "fulfilled"
               /\ outcome[r].result = Get(object, "result")
               /\ outcome[r].logs = Get(object, "logs")
          ELSE /\ promise[r] = "rejected"
               /\ outcome[r].message = Get(object, "message")
               /\ outcome[r].stack = Get(object, "stack")
               /\ outcome[r].code = Get(object, "code")
               /\ outcome[r].logs = Get(object, "logs")

\* C12: in the subprocess executor, whatever value the user's function throws,
\* the child exits with status zero and the call is rejected with the text of
\* the thrown value and the entries logged before the throw, never with
\* "Process failed".
C12_ThrownValue ==
  \A r \in Reqs :
    (/\ variant = "process"
     /\ settledBy[r] = "output"
     /\ runCode[r].script \in {"throws", "throwString"}) =>
      /\ process[r].success
      /\ promise[r] = "rejected"
      /\ outcome[r].message =
           Str(IF runCode[r].script = "throws" THEN "Intentional error for testing"
                                               ELSE "boom")
      /\ outcome[r].logs =
           CapturedLogs(FunctionCalls(runCode[r].script, runCode[r].payload))
      /\ outcome[r].message # Str("Process failed")


\* C13: at the response boundary a failure of the sandboxed code (the function
\* threw, the export is missing, the script has a syntax error) is answered
\* with status 422 and a body carrying message, stack and logs and no error
\* field, while a timeout or an invalid request body is answered with status
\* 400 and a body {error: <message>} carrying no message, stack or logs.
C13_ResponseShape ==
  \A r \in Reqs :
    http[r].state = "responded" =>
      LET request == http[r].request
          status == http[r].response.status
          body == http[r].response.body
      IN  /\ (promise[r] = "rejected" /\ settledBy[r] = "message") =>
                /\ status = 422
                /\ Get(body, "message").t = "str"
                /\ Get(body, "stack").t = "str"
                /\ Get(body, "logs").t = "arr"
                /\ Get(body, "error") = Undef
          /\ (settledBy[r] = "timeout" \/ (request.method = "POST" /\ promise[r] = "none")) =>
                /\ status = 400
                /\ body.t = "obj"
                /\ Len(body.v) = 1
                /\ Get(body, "error").t = "str"
                /\ settledBy[r] = "timeout" => Get(body, "error") = Str("Execution timeout")

\* C14: a served request whose isolation is "process", or absent, runs in a
\* freshly spawned OS process and in no worker, and one whose isolation is
\* "none" runs in a worker and in no OS process.
C14_IsolationSelectsRunner ==
  \A r \in Reqs :
    (http[r].state # "none" /\ promise[r] # "none") =>
      LET isolation == Get(http[r].request.json, "isolation")
      IN  IF isolation \in {Undef, Str("process")}
          THEN process[r].state # "none" /\ handle[r].worker = 0
          ELSE process[r].state = "none" /\ handle[r].worker \in WorkerIds


\* A binary buffer is reachable in value, through sequences and mappings
RECURSIVE HasBuffer(_)
HasBuffer(value) ==
  IF value.t = "buf" THEN TRUE
  ELSE IF value.t = "arr" THEN \E i \in 1..Len(value.v) : HasBuffer(value.v[i])
  ELSE IF value.t = "obj" THEN \E i \in 1..Len(value.v) : HasBuffer(value.v[i][2])
  ELSE FALSE

\* value is built from scalars, buffers, sequences and string-keyed mappings
RECURSIVE BuiltFromPlain(_)
BuiltFromPlain(value) ==
  IF value.t \in {"inst", "cycle", "error"} THEN FALSE
  ELSE IF value.t = "arr" THEN \A i \in 1..Len(value.v) : BuiltFromPlain(value.v[i])
  ELSE IF value.t = "obj" THEN \A i \in 1..Len(value.v) : BuiltFromPlain(value.v[i][2])
  ELSE TRUE

\* after has the shape of before: sequences of the same length, mappings with
\* the same keys in the same order, the same nesting, every buffer replaced
\* by its data URI and every other leaf equal
RECURSIVE SameShape(_, _)
SameShape(before, after) ==
  IF before.t = "buf" THEN after = Str(bufferToDataUri(before.v))
  ELSE IF before.t = "arr"
    THEN /\ after.t = "arr"
         /\ Len(after.v) = Len(before.v)
         /\ \A i \in 1..Len(before.v) : SameShape(before.v[i], after.v[i])
  ELSE IF before.t = "obj"
    THEN /\ after.t = "obj"
         /\ Len(after.v) = Len(before.v)
         /\ \A i \in 1..Len(before.v) :
              /\ after.v[i][1] = before.v[i][1]
              /\ SameShape(before.v[i][2], after.v[i][2])
  ELSE after = before

\* The normaliser has returned a result for its argument
Normalized == norm.stage \in {"normalized", "renormalized"}

\* C15: after normalisation of a value built from sequences and string-keyed
\* mappings, whatever their key names, no buffer is reachable in the result,
\* every buffer has been replaced by its data URI, and sequence lengths,
\* element order, key sets, key order and nesting are those of the input.
C15_BuffersReplaced ==
  (Normalized /\ BuiltFromPlain(norm.input)) =>
    /\ ~HasBuffer(norm.output)
    /\ SameShape(norm.input, norm.output)


\* C16: normalisation returns a scalar (number, string, boolean, null,
\* undefined) as it is, returns an instance of a non-plain type as the
\* identical object, and returns for a sequence or a plain mapping a new
\* container, never the argument itself.
C16_NonBuffersUnchanged ==
  Normalized =>
    /\ norm.input.t \in {"num", "str", "bool", "null", "undef"} =>
         norm.output = norm.input
    /\ norm.input.t = "inst" => (norm.same /\ norm.output = norm.input)
    /\ norm.input.t \in {"arr", "obj"} => ~norm.same


Base64Value(c) ==
  IF \E i \in 0..63 : SubSeq(Base64Alphabet, i + 1, i + 1) = c
  THEN CHOOSE i \in 0..63 : SubSeq(Base64Alphabet, i + 1, i + 1) = c
  ELSE -1

\* Standard base64 decoding: the bytes of s, <<-1>> when s is not base64 text
RECURSIVE Base64Decode(_)
Base64Decode(s) ==
  IF Len(s) = 0 THEN <<>>
  ELSE IF Len(s) < 4 THEN <<-1>>
  ELSE IF Len(s) = 4 THEN
    LET v1 == Base64Value(SubSeq(s, 1, 1))
        v2 == Base64Value(SubSeq(s, 2, 2))
        v3 == Base64Value(SubSeq(s, 3, 3))
        v4 == Base64Value(SubSeq(s, 4, 4))
    IN  IF v1 = -1 \/ v2 = -1 THEN <<-1>>
        ELSE IF SubSeq(s, 3, 4) = "==" THEN << v1 * 4 + v2 \div 16 >>
        ELSE IF v3 = -1 THEN <<-1>>
        ELSE IF SubSeq(s, 4, 4) = "="
          THEN << v1 * 4 + v2 \div 16, (v2 % 16) * 16 + v3 \div 4 >>
        ELSE IF v4 = -1 THEN <<-1>>
        ELSE << v1 * 4 + v2 \div 16, (v2 % 16) * 16 + v3 \div 4, (v3 % 4) * 64 + v4 >>
  ELSE
    LET half == 4 * ((Len(s) \div 4 + 1) \div 2)
        left == Base64Decode(SubSeq(s, 1, half))
        right == Base64Decode(SubSeq(s, half + 1, Len(s)))
    IN  IF left = <<-1>> \/ right = <<-1>> THEN <<-1>> ELSE left \o right

\* The position of the first comma of s, 0 when it has none
CommaAt(s) ==
  IF \E i \in 1..Len(s) : SubSeq(s, i, i) = ","
  THEN CHOOSE i \in 1..Len(s) :
         /\ SubSeq(s, i, i) = ","
         /\ \A j \in 1..(i - 1) : SubSeq(s, j, j) # ","
  ELSE 0

\* C18: the data URI of a buffer is "data:", a MIME type, ";base64," and a
\* payload whose base64 decoding is exactly the bytes of the buffer, whatever
\* type was detected; the empty buffer gives type application/octet-stream and
\* an empty payload.
C18_DataUriRoundTrip ==
  (norm.input.t = "buf" /\ norm.uri # "") =>
    LET uri == norm.uri
        comma == CommaAt(uri)
        header == SubSeq(uri, 1, comma)
        payload == SubSeq(uri, comma + 1, Len(uri))
    IN  /\ comma > Len("data:;base64,")
        /\ StartsWith(header, "data:")
        /\ SubSeq(header, Len(header) - 7, Len(header)) = ";base64,"
        /\ Base64Decode(payload) = norm.input.v
        /\ Len(norm.input.v) = 0 => uri = "data:application/octet-stream;base64,"

\* A buffer whose encoding uses the digits "+" and "/" and padding has been
\* encoded
C18_Witness ==
  /\ norm.input.t = "buf"
  /\ Len(norm.input.v) % 3 = 2
  /\ Includes(norm.uri, "+")
  /\ Includes(norm.uri, "/8=")
  /\ Base64Decode(SubSeq(norm.uri, CommaAt(norm.uri) + 1, Len(norm.uri))) = norm.input.v


\* The bytes start with an ISO-BMFF file header: a big-endian box size whose
\* first three bytes are zero, then "ftyp" at byte offset 4
IsoBmffHeader(b) ==
  /\ Len(b) >= 8
  /\ SubSeq(b, 1, 3) = <<0, 0, 0>>
  /\ SubSeq(b, 5, 8) = <<102, 116, 121, 112>>

\* C19: a buffer that starts with an ISO-BMFF file header (box size with three
\* leading zero bytes, "ftyp" at offset 4) is classified video/mp4.
C19_IsoBmffIsMp4 ==
  (norm.input.t = "buf" /\ norm.mime # "" /\ IsoBmffHeader(norm.input.v)) =>
    norm.mime = "video/mp4"

\* The buffers whose text is an SVG document: an svg element, preceded or not
\* by white space and by an XML prolog
SvgDocuments ==
  {Bytes(name) : name \in {"svg", "spaceSvg", "prologSvg", "spacePrologSvg",
                           "foreignObjectSvg", "longPrologSvg"}}

\* C20: a printable-text buffer whose text is an SVG document is classified
\* image/svg+xml, never application/xml or any other type.
C20_SvgText ==
  (norm.input.t = "buf" /\ norm.mime # "" /\ norm.input.v \in SvgDocuments) =>
    norm.mime = "image/svg+xml"


\* The text of the buffer is printable, starts with "<?xml" or with "<" and
\* contains none of "<svg", "<html" and "<!doctype html"
PlainXmlText(b) ==
  LET d == TextDecode(b)
      lowerText == ToLowerCase(d.text)
  IN  /\ d.ok
      /\ LooksPrintable(d.text)
      /\ StartsWith(d.text, LitXmlDecl) \/ StartsWith(d.text, LitLt)
      /\ ~Includes(lowerText, LitSvg)
      /\ ~Includes(lowerText, LitHtml)
      /\ ~Includes(lowerText, LitDoctypeHtml)

\* C21: a printable-text buffer whose text starts with "<?xml" or with "<" and
\* contains none of "<svg", "<html", "<!doctype html" is classified
\* application/xml.
C21_XmlText ==
  (norm.input.t = "buf" /\ norm.mime # "" /\ PlainXmlText(norm.input.v)) =>
    norm.mime = "application/xml"


\* Worker w has an idle entry in the pool
IdleEntry(pool, w) ==
  /\ EntryIndex(pool, w) # 0
  /\ ~pool[EntryIndex(pool, w)].busy

\* With the workers ws, the pool and the child processes procs, the handle of
\* call r is gone: its worker is terminated and in no pool entry, or its child
\* process is not running
HandleGone(r, ws, pool, procs) ==
  IF variant = "process"
  THEN procs[r].state # "running"
  ELSE /\ ws[handle[r].worker].status = "terminated"
       /\ EntryIndex(pool, handle[r].worker) = 0

\* No call is in flight
NoneInFlight == \A r \in Reqs : promise[r] # "pending"

C23_TimeoutAlwaysSettles ==
  \A r \in Reqs :
    (timers[r].state = "fired" /\ isResolved[r]) => promise[r] # "pending"


\* C24: after a pooled call has ended in a runtime error, a worker error event
\* or a timeout, its worker is terminated, is in no pool entry and is leased to
\* no later call, whatever its request count.
C24_FailedWorkerNeverReused ==
  \A r \in Reqs :
    (variant = "pool" /\ promise[r] = "rejected") =>
      /\ workers[handle[r].worker].status = "terminated"
      /\ EntryIndex(workerPool, handle[r].worker) = 0
      /\ \A q \in Reqs : q > r => handle[q].worker # handle[r].worker

\* A pooled call was rejected by an error response on its first lease, below
\* the threshold, and a later call has been given another worker
C24_Witness ==
  \E r, q \in Reqs :
    /\ variant = "pool"
    /\ poolConfig.max > 1
    /\ promise[r] = "rejected"
    /\ settledBy[r] = "message"
    /\ q > r
    /\ promise[q] # "none"
    /\ handle[q].worker # handle[r].worker
    /\ workers[handle[r].worker].status = "terminated"


\* The unsettled calls whose closure holds worker w
Owners(w) == {r \in Reqs : promise[r] = "pending" /\ handle[r].worker = w}

\* Worker w is a live temporary worker: running and in no pool entry
Temporary(w) == workers[w].status = "running" /\ EntryIndex(workerPool, w) = 0

\* C25: in every reachable state of the pooled executor each busy pool entry
\* and each temporary worker is held by exactly one unsettled call, and each
\* unsettled call holds one live worker, which is a busy entry or a temporary
\* worker: no entry is leased to two calls in flight.
C25_ExclusiveLease ==
  /\ \A i \in 1..Len(workerPool) :
       workerPool[i].busy => Cardinality(Owners(workerPool[i].worker)) = 1
  /\ \A w \in WorkerIds : Temporary(w) => Cardinality(Owners(w)) = 1
  /\ \A r \in Reqs :
       promise[r] = "pending" =>
         /\ handle[r].worker \in WorkerIds
         /\ workers[handle[r].worker].status = "running"
         /\ ~IdleEntry(workerPool, handle[r].worker)

\* Two calls are in flight with a pool of capacity one: the first holds the
\* busy entry, the second a temporary worker
C25_Witness ==
  /\ variant = "pool"
  /\ poolConfig.size = 1
  /\ Len(workerPool) = 1
  /\ workerPool[1].busy
  /\ \E r, q \in Reqs :
       /\ r # q
       /\ Owners(workerPool[1].worker) = {r}
       /\ handle[q].worker \in WorkerIds
       /\ Temporary(handle[q].worker)
       /\ Owners(handle[q].worker) = {q}


\* No idle pool entry has reached the recycling threshold, and no pool entry
\* has served more calls than the threshold
WithinThreshold ==
  \A i \in 1..Len(workerPool) :
    /\ ~workerPool[i].busy => workerPool[i].requestCount < poolConfig.max
    /\ workerPool[i].requestCount <= poolConfig.max

Acquires(r) == variant = "pool" /\ promise[r] = "none" /\ promise'[r] = "pending"

\* Call r of the pooled executor gets its outcome in this step
Ends(r) == variant = "pool" /\ promise[r] = "pending" /\ promise'[r] # "pending"

\* C27: pool acquisition follows a fixed preference and never waits: the step
\* that makes a call gives it a running worker, which is an idle pool entry
\* whenever one exists, otherwise a new pool entry if the pool holds fewer
\* entries than its capacity, otherwise a temporary worker in no pool entry; a
\* temporary worker never enters the pool and is terminated in the step that
\* ends its call, whatever the outcome.
C27_AcquisitionOrder ==
  [][\A r \in Reqs :
       /\ Acquires(r) =>
            LET w == handle'[r].worker
            IN  /\ w \in WorkerIds
                /\ workers'[w].status = "running"
                /\ IF \E i \in 1..Len(workerPool) : ~workerPool[i].busy
                   THEN /\ IdleEntry(workerPool, w)
                        /\ Len(workerPool') = Len(workerPool)
                        /\ workerPool'[EntryIndex(workerPool', w)].busy
                        /\ workers[w].status = "running"
                   ELSE IF Len(workerPool) < poolConfig.size
                   THEN /\ workers[w].status = "none"
                        /\ workerPool' = Append(workerPool,
                                                [worker |-> w, busy |-> TRUE,
                                                 requestCount |-> 1])
                   ELSE /\ workers[w].status = "none"
                        /\ workerPool' = workerPool
                        /\ EntryIndex(workerPool', w) = 0
       /\ (Ends(r) /\ EntryIndex(workerPool, handle[r].worker) = 0) =>
            /\ workers'[handle[r].worker].status = "terminated"
            /\ workerPool' = workerPool
       /\ \A w \in WorkerIds :
            (variant = "pool" /\ Temporary(w)) => EntryIndex(workerPool', w) = 0]_vars

\* The pool was full and busy when the second call was made, so the call got a
\* temporary worker, which is terminated now that the call has ended while the
\* pool entry is still leased to the first call
C27_Witness ==
  /\ variant = "pool"
  /\ poolConfig.size = 1
  /\ Len(workerPool) = 1
  /\ workerPool[1].busy
  /\ promise[1] = "pending"
  /\ handle[1].worker = workerPool[1].worker
  /\ promise[2] \in {"fulfilled", "rejected"}
  /\ handle[2].worker \in WorkerIds
  /\ EntryIndex(workerPool, handle[2].worker) = 0
  /\ workers[handle[2].worker].status = "terminated"

\* The Worker objects constructed so far
Constructed == {w \in WorkerIds : workers[w].status # "none"}

\* C28: in every reachable state the pool holds at most capacity entries,
\* however many calls are in flight and however leases, releases, recycles and
\* timeouts interleave; a worker constructed while the pool is at capacity is
\* in no pool entry.
C28_PoolBounded ==
  variant = "pool" =>
    /\ Len(workerPool) <= poolConfig.size
    /\ \A i \in 1..Len(workerPool) :
         /\ workerPool[i].worker \in Constructed
         /\ \A j \in 1..Len(workerPool) :
              workerPool[i].worker = workerPool[j].worker => i = j

\* With capacity 1 two calls are in flight on two workers and the pool holds
\* one entry
C28_Witness ==
  /\ variant = "pool"
  /\ poolConfig.size = 1
  /\ \A r \in Reqs : promise[r] = "pending"
  /\ Cardinality(Constructed) = 2
  /\ \A w \in Constructed : workers[w].status = "running"
  /\ Len(workerPool) = 1

\* The entry of worker w is busy now and is idle or out of the pool after
\* this step
LeaseEnds(w) ==
  /\ EntryIndex(workerPool, w) # 0
  /\ workerPool[EntryIndex(workerPool, w)].busy
  /\ IF EntryIndex(workerPool', w) = 0
     THEN TRUE
     ELSE ~workerPool'[EntryIndex(workerPool', w)].busy

\* Call r is the lessee of worker w: it holds w and has not yet passed its guard
Lessee(r, w) == handle[r].worker = w /\ promise[r] = "pending" /\ ~isResolved[r]

\* C29: only the call that leased a busy pool entry changes that entry's
\* state: a busy entry becomes idle or leaves the pool only in the step in
\* which its one lessee passes the guard, a guard once set stays set (so each
\* lease is released at most once and no handler of a settled call or of
\* another call releases the entry), and requestCount never decreases.
C29_OnlyLesseeReleases ==
  [][variant = "pool" =>
       /\ \A w \in WorkerIds :
            LeaseEnds(w) =>
              /\ Cardinality({r \in Reqs : Lessee(r, w)}) = 1
              /\ \A r \in Reqs :
                   IF Lessee(r, w)
                   THEN isResolved'[r] /\ promise'[r] # "pending"
                   ELSE /\ isResolved'[r] = isResolved[r]
                        /\ promise'[r] = promise[r]
                        /\ settles'[r] = settles[r]
       /\ \A r \in Reqs : isResolved[r] => isResolved'[r]
       /\ \A w \in WorkerIds :
            (EntryIndex(workerPool, w) # 0 /\ EntryIndex(workerPool', w) # 0) =>
              workerPool'[EntryIndex(workerPool', w)].requestCount
                >= workerPool[EntryIndex(workerPool, w)].requestCount]_vars

\* The second call was served by the entry the first call had released, and
\* has released it in turn, while the timer of the first call is long cleared
C29_Witness ==
  /\ variant = "pool"
  /\ Len(workerPool) = 1
  /\ ~workerPool[1].busy
  /\ workerPool[1].requestCount = 2
  /\ \A r \in Reqs :
       /\ handle[r].worker = workerPool[1].worker
       /\ promise[r] = "fulfilled"
       /\ isResolved[r]
       /\ settles[r] = 1

\* Call r has been settled by a branch other than the timeout callback
SettledByOther(r) ==
  /\ promise[r] \in {"fulfilled", "rejected"}
  /\ settledBy[r] \in {"message", "errorEvent", "output", "outputError"}

\* C30: whenever a call is settled by a success message, an error message or
\* a worker or process failure rather than by the deadline, its deadline timer
\* is cancelled by the time the outcome is delivered, and the timeout callback
\* never runs for a call already settled by another branch.
C30_TimerCancelled ==
  /\ [](\A r \in Reqs : SettledByOther(r) => timers[r].state = "cleared")
  /\ [][\A r \in Reqs : SettledByOther(r) => timers'[r].state # "fired"]_vars

\* In each executor a call settled by its response or by a failure event has
\* its timer cancelled
C30_Witness ==
  \E r \in Reqs :
    /\ SettledByOther(r)
    /\ timers[r].state = "cleared"
    /\ settles[r] = 1

\* The worker or pool entry of call r is no longer held by r: the worker is
\* terminated and in no pool entry, or its entry is idle, or a later call has
\* leased it
WorkerGivenUp(r) ==
  LET w == handle[r].worker
  IN  IF w \notin WorkerIds
      THEN FALSE
      ELSE IF EntryIndex(workerPool, w) = 0
      THEN workers[w].status = "terminated"
      ELSE IF ~workerPool[EntryIndex(workerPool, w)].busy
      THEN TRUE
      ELSE \E q \in Reqs : q > r /\ handle[q].worker = w /\ promise[q] = "pending"

PrintedResponse(r) ==
  /\ variant = "process"
  /\ process[r].state \in {"exited", "collected"}
  /\ process[r].success
  /\ FunctionEnd(runCode[r].script) # "die"

\* C32: in the process executor the bootstrap writes exactly one JSON object
\* to standard output per execution that reaches the protocol: nothing the
\* user code emits through the console - during module load, during the call,
\* or from callbacks that run after the function has returned and before the
\* process exits - appears on standard output alongside that object.
C32_OneJsonObject ==
  \A r \in Reqs :
    PrintedResponse(r) =>
      /\ Len(process[r].stdout) = 1
      /\ process[r].stdout[1].k = "json"

\* An invocation is running in the isolate of worker w: self.onmessage has
\* taken an execute message and has not finished with it, or the awaited call
\* never settles
InvocationRunning(w) == workers[w].inbox # <<>> \/ workers[w].stuck

\* C33: the console sink installed for an invocation is restored on every
\* exit path of that invocation - normal return, thrown error, missing
\* function, module load failure - so whenever no invocation is running in a
\* sandbox its global console is the original one; in the subprocess what the
\* user code prints after the invocation goes to the original console.
C33_ConsoleRestored ==
  /\ \A w \in WorkerIds :
       (workers[w].status = "running" /\ ~InvocationRunning(w)) =>
         workers[w].sink = "original"
  /\ \A w \in WorkerIds : workers[w].sink = "original" => workers[w].foreign = <<>>
  /\ \A r \in Reqs :
       PrintedResponse(r) =>
         SubSeq(process[r].stdout, 2, Len(process[r].stdout))
           = LateChunks(runCode[r].script)

\* An invocation that ended with a thrown error, a missing function or a
\* module that does not load has posted its error response, and the console
\* of its isolate is the original one
C33_Witness ==
  \E w \in WorkerIds :
    /\ workers[w].status = "running"
    /\ ~InvocationRunning(w)
    /\ workers[w].sink = "original"
    /\ workers[w].outbox # <<>>
    /\ Head(workers[w].outbox).kind = "message"
    /\ Get(Head(workers[w].outbox).data, "type") = Str("error")

\* The entries the invocation of call r emits itself, as the worker records
\* them
OwnLogs(r) ==
  LET data == [runCode[r] EXCEPT !.payload = StructuredClone(runCode[r].payload)]
  IN  IF ScriptParses(data.script) /\ ExportType(data.script, data.fn) = "function"
      THEN CapturedLogs(FunctionCalls(data.script, data.payload))
      ELSE CapturedLogs(<<>>)

\* C34: in the pooled executor the logs returned for a call contain only the
\* entries emitted by that call's own invocation: console output of code of
\* an earlier call that ran on the same reused worker (a timer it left
\* running) never appears in a later call's logs.
C34_LogsIsolated ==
  \A r \in Reqs :
    (variant = "pool" /\ settledBy[r] = "message") => outcome[r].logs = OwnLogs(r)

\* Call r was settled because its sandbox failed without a structured
\* response: a worker error event, or process.output() rejecting
SandboxFailed(r) == settledBy[r] \in {"errorEvent", "outputError"}

C36_NormaliseFailureSettles ==
  \A r \in Reqs :
    (variant = "pool" /\ isResolved[r] /\ timers[r].state = "cleared") =>
      /\ promise[r] \in {"fulfilled", "rejected"}
      /\ WorkerGivenUp(r)

\* The responses among the events worker w has posted and its parent has not
\* yet handled
PostedResponses(ws, w) == SelectSeq(ws[w].outbox, LAMBDA e : e.kind = "message")

\* The event is what the invocation for the execute message of call r posts,
\* whatever callbacks left in the sandbox logged meanwhile
OwnResponse(r, event) ==
  LET data == [runCode[r] EXCEPT !.payload = StructuredClone(runCode[r].payload)]
  IN  \E f \in {<<>>} \cup {<<c>> : c \in LeftoverCalls(r)} :
        WorkerExecute(data, f).events = <<event>>

C38_TimeoutWithoutLogs ==
  \A r \in Reqs :
    settledBy[r] = "timeout" =>
      /\ promise[r] = "rejected"
      /\ outcome[r].message = Str("Execution timeout")
      /\ outcome[r].result = Undef
      /\ IF variant = "process"
         THEN /\ outcome[r].cls = "ExecutionError"
              /\ outcome[r].code = Str("TIMEOUT_ERROR")
              /\ outcome[r].logs = Arr(<<>>)
         ELSE /\ outcome[r].cls = "Error"
              /\ outcome[r].code = Undef
              /\ outcome[r].logs = Undef

\* The call running the endless loop, which logs before it starts looping,
\* has been rejected by the timeout callback of the process executor
C38_Witness ==
  \E r \in Reqs :
    /\ variant = "process"
    /\ runCode[r].script = "loop"
    /\ invoked[r]
    /\ FunctionCalls(runCode[r].script, runCode[r].payload) # <<>>
    /\ settledBy[r] = "timeout"
    /\ promise[r] = "rejected"

=============================================================================
